---- MODULE Spec2Model ----
(***************************************************************************)
(* Git_Architect: the context-bounded analysis pipeline.                   *)
(*                                                                         *)
(*   services/security.ts   redactSecrets, sanitizeForAI                   *)
(*   services/treeUtils.ts  buildTree, treeToString, generateTreeString,   *)
(*                          filterImportantFiles                           *)
(*   services/gemini.ts     identifyRelevantFiles, fetchAndSanitizeFiles,  *)
(*                          generatePlanEnhanced                           *)
(*   services/github.ts     getFileContent                                 *)
(*                                                                         *)
(* Text is a sequence of tokens.  A token is one character, or one         *)
(* redaction marker / placeholder written by the program (kept whole: no   *)
(* pattern class below contains "[" or "]").                               *)
(***************************************************************************)
EXTENDS Integers, Sequences, FiniteSets, TLC

VARIABLES
    \* --- scanner run (sanitizeForAI on one text) ---
    content,        \* the raw text handed to the scanner
    filePath,       \* the optional file path argument
    scanPc,         \* "ready" | "done"
    scanOut,        \* what sanitizeForAI returned: [content, warnings]
    scanDetected,   \* redactSecrets(...).detectedSecrets of that call
    consoleLog,     \* what the scanner passed to console.warn
    \* --- digest run (generateTreeString on one entry list) ---
    inputFiles,     \* `files`: the RepoFile[] argument
    treePc,         \* "ready" | "done"
    treeString,     \* the returned string, as its lines
    \* --- analysis run (identifyRelevantFiles / generatePlanEnhanced) ---
    repoTree,       \* the RepoFile[] argument
    provider,       \* config.settings.provider: "gemini" | "local"
    pc,             \* where the async function stands
    responseText,   \* `text`: the model's response text being parsed
    relevantFilePaths, \* what identifyRelevantFiles returned
    fetchRequests,  \* the paths getFileContent was called with, in order
    rawContent,     \* per selected file: [settled, ok, text], the fetch and what
                    \* getFileContent returned for it
    fileContents,   \* per selected file: { path, content, warnings }
    settleOrder,    \* the indices of the settled fetches, in completion order
    modelCalls,     \* the calls issued to the model backend, in order
    backend,        \* how the backend ended each call: "ok" | "error"
    outcome,        \* "none" | "returned" | "threw"
    baseUrl,        \* config.settings.baseUrl, the endpoint of the local backend
    error,          \* the message of the Error that left the operation, if any
    \* --- the App (App.tsx) and one handleAnalyze run ---
    appState,       \* AppState: "SEARCH_REPO" | "INPUT_GOALS" | "VIEW_PLAN" | ...
    selectedRepo,   \* the selected Repo, or NULL
    plan,           \* the stored GeneratedPlan, or NULL
    isAnalyzing,    \* the analyzing flag
    loadingStage,   \* the text of the loading overlay
    alerts,         \* the messages shown with alert(), in order
    githubRequests, \* the requests getRepoTree sent to the GitHub API, in order
    fetchedTree,    \* treeData.tree: the entries of the fetched tree
    researchNotes,  \* what performDeepResearch returned
    currentPlan,    \* the plan handed to the running refactorPlan call
    githubResponses, \* how those requests ended: [status, statusText, body], in order
    \* --- RepoSearch (the search box and its two effects) ---
    query,          \* the text of the input
    debouncedQuery, \* the debounced query
    timer,          \* whether the timeout of the debounce effect is pending
    runs,           \* the runs of the search effect: [query, active, at]
    results,        \* the repositories shown
    searchError,    \* `error`: the message shown, or NULL
    loading,        \* the loading flag
    \* --- StepCard (the chat of one step) ---
    chatHistory,    \* the ChatMessage[] shown
    input,          \* the text of the chat input
    loadingChat,    \* the loading flag of the chat
    asksInFlight    \* the number of handleSendMessage calls awaiting askStepQuestion

scanVars == <<content, filePath, scanPc, scanOut, scanDetected, consoleLog>>
treeVars == <<inputFiles, treePc, treeString>>
runVars  == <<repoTree, provider, pc, responseText, relevantFilePaths, fetchRequests,
              rawContent, fileContents, settleOrder, modelCalls, backend, outcome,
              baseUrl, error>>
uiVars   == <<query, debouncedQuery, timer, runs, results, searchError, loading,
              chatHistory, input, loadingChat, asksInFlight>>
appVars  == <<appState, selectedRepo, plan, isAnalyzing, loadingStage, alerts,
              githubRequests, fetchedTree, researchNotes, currentPlan>>
vars == <<content, filePath, scanPc, scanOut, scanDetected, consoleLog,
          inputFiles, treePc, treeString,
          repoTree, provider, pc, responseText, relevantFilePaths, fetchRequests,
          rawContent, fileContents, settleOrder, modelCalls, backend, outcome,
          baseUrl, error,
          appState, selectedRepo, plan, isAnalyzing, loadingStage, alerts,
          githubRequests, fetchedTree, researchNotes, currentPlan,
          githubResponses,
          query, debouncedQuery, timer, runs, results, searchError, loading,
          chatHistory, input, loadingChat, asksInFlight>>

Min(a, b) == IF a < b THEN a ELSE b

----------------------------------------------------------------------------
(* Strings                                                                 *)

\* s.includes(sub)
Contains(s, sub) ==
    \E i \in 1..(Len(s) - Len(sub) + 1) : SubSeq(s, i, i + Len(sub) - 1) = sub

\* s.indexOf(sub), 1-based; 0 when absent
IndexOf(s, sub) ==
    IF Contains(s, sub)
    THEN CHOOSE i \in 1..(Len(s) - Len(sub) + 1) :
            /\ SubSeq(s, i, i + Len(sub) - 1) = sub
            /\ \A j \in 1..(i - 1) : SubSeq(s, j, j + Len(sub) - 1) # sub
    ELSE 0

\* s.replace(sub, <<tok>>) with a string pattern: the FIRST occurrence only
ReplaceFirst(s, sub, tok) ==
    LET i == IndexOf(s, sub)
    IN  IF i = 0 THEN s
        ELSE SubSeq(s, 1, i - 1) \o <<tok>> \o SubSeq(s, i + Len(sub), Len(s))

\* s.substring(0, n)
Substring0(s, n) == SubSeq(s, 1, Min(n, Len(s)))

\* number of "\n" in s
RECURSIVE CountNewlines(_)
CountNewlines(s) ==
    IF s = <<>> THEN 0
    ELSE (IF Head(s) = "\n" THEN 1 ELSE 0) + CountNewlines(Tail(s))

\* s.split('\n')[k - 1], k >= 1 (<<>> when there is no such line)
RECURSIVE LineOf(_, _)
LineOf(s, k) ==
    LET nl == IndexOf(s, <<"\n">>)
    IN  IF k = 1 THEN (IF nl = 0 THEN s ELSE SubSeq(s, 1, nl - 1))
        ELSE IF nl = 0 THEN <<>>
        ELSE LineOf(SubSeq(s, nl + 1, Len(s)), k - 1)

----------------------------------------------------------------------------
(* security.ts                                                             *)

\* The characters of scanned text.  "K" stands for the literal prefix AKIA,
\* "g" for the literal prefix ghp_, "A" for any other upper-case letter or
\* digit, "\n" for the line break (the only character in no pattern class).
Alphabet == {"A", "K", "g", "\n"}

\* SECRET_PATTERNS, in source order, scaled: a literal prefix is one
\* character and a repetition count {16} / {36,} is 1 / 1-or-more.
\*   AWS Access Key   /AKIA[0-9A-Z]{16}/g          ->  K [AK]{1}
\*   GitHub Token     /gh[pousr]_[A-Za-z0-9_]{36,}/g ->  g [AKg]{1,}
\*   Generic API Key  /(?:api[_-]?key|...)[\s]*[=:]["']?([a-zA-Z0-9_\-]{20,})["']?/gi
\*                                                 ->  P = [AKgPk_]{2,}
\* where "P" stands for the literal API_KEY and "k" for a lower-case letter.
\* marker is `[REDACTED_${name.toUpperCase().replace(/\s/g, '_')}]`.
SECRET_PATTERNS ==
    << [name |-> "Generic API Key", marker |-> "[REDACTED_GENERIC_API_KEY]",
        prefix |-> <<"P", "=">>, cls |-> {"A", "K", "g", "P", "k", "_"}, min |-> 2,
        exact |-> FALSE],
       [name |-> "AWS Access Key", marker |-> "[REDACTED_AWS_ACCESS_KEY]",
        prefix |-> <<"K">>, cls |-> {"A", "K"}, min |-> 1, exact |-> TRUE],
       [name |-> "GitHub Token", marker |-> "[REDACTED_GITHUB_TOKEN]",
        prefix |-> <<"g">>, cls |-> {"A", "K", "g"}, min |-> 1, exact |-> FALSE] >>

\* length of the longest run of characters of cls starting at s[i]
RECURSIVE RunLength(_, _, _)
RunLength(s, i, cls) ==
    IF i > Len(s) \/ s[i] \notin cls THEN 0
    ELSE 1 + RunLength(s, i + 1, cls)

\* length of the match of pattern p starting exactly at s[i]; 0 when none
\* (quantifiers are greedy and nothing follows them, so no backtracking)
MatchLengthAt(p, s, i) ==
    LET n   == Len(p.prefix)
        run == RunLength(s, i + n, p.cls)
    IN  IF i + n - 1 <= Len(s) /\ SubSeq(s, i, i + n - 1) = p.prefix /\ run >= p.min
        THEN n + (IF p.exact THEN p.min ELSE run)
        ELSE 0

\* content.matchAll(pattern) with the g flag: leftmost, non-overlapping
RECURSIVE MatchAllFrom(_, _, _)
MatchAllFrom(p, s, i) ==
    IF i > Len(s) THEN <<>>
    ELSE LET n == MatchLengthAt(p, s, i)
         IN  IF n > 0
             THEN <<[index |-> i - 1, text |-> SubSeq(s, i, i + n - 1)]>>
                      \o MatchAllFrom(p, s, i + n)
             ELSE MatchAllFrom(p, s, i + 1)

matchAll(p, s) == MatchAllFrom(p, s, 1)

\* lines[lineNumber - 1]?.substring(0, 80): the context kept with a detection
CONTEXT_LENGTH == 80

\* content.length > 500000: the text is not scanned
MAX_SCAN_LENGTH == 500000

TOO_LARGE_MARKER == <<"[FILE TOO LARGE - SKIPPED FOR SECURITY]">>

\* Body of the `for (const match of matches)` loop for one match m of p:
\* the detection record is built from the ORIGINAL content and its lines,
\* the replacement is made in the running redactedContent.
ApplyMatch(acc, p, m, text) ==
    LET lineNumber  == CountNewlines(Substring0(text, m.index)) + 1
        contextLine == Substring0(LineOf(text, lineNumber), CONTEXT_LENGTH)
    IN  [redacted |-> ReplaceFirst(acc.redacted, m.text, p.marker),
         detected |-> Append(acc.detected,
                        [type |-> p.name, line |-> lineNumber, context |-> contextLine])]

RECURSIVE ApplyMatches(_, _, _, _)
ApplyMatches(acc, p, ms, text) ==
    IF ms = <<>> THEN acc
    ELSE ApplyMatches(ApplyMatch(acc, p, Head(ms), text), p, Tail(ms), text)

\* SECRET_PATTERNS.forEach(...), patterns k..last
RECURSIVE ApplyPatterns(_, _, _)
ApplyPatterns(acc, k, text) ==
    IF k > Len(SECRET_PATTERNS) THEN acc
    ELSE ApplyPatterns(
            ApplyMatches(acc, SECRET_PATTERNS[k], matchAll(SECRET_PATTERNS[k], text), text),
            k + 1, text)

\* filePath?.includes('.env') || filePath?.endsWith('.env.example'), by file
\* name: a path is a sequence of segments and '.env' holds no separator.
DotEnvNames == {".env", ".env.example", ".env.local"}
IsEnvPath(path) == \E i \in 1..Len(path) : path[i] \in DotEnvNames

\* ENV_VAR_PATTERN = /^[A-Z_][A-Z0-9_]*\s*=\s*.+$/gm
Whitespace == {"\n", " "}
EnvKeyChars == {"A", "K", "P", "_"}

\* end (inclusive) of the line that holds position q
RECURSIVE LineEnd(_, _)
LineEnd(s, q) == IF q + 1 > Len(s) \/ s[q + 1] = "\n" THEN q ELSE LineEnd(s, q + 1)

\* the match of ENV_VAR_PATTERN starting at s[i]: [eq, last] (position of the
\* "=" and of the last matched character), or eq = 0 when there is none
EnvMatchAt(s, i) ==
    LET lineStart == i = 1 \/ s[i - 1] = "\n"
        keyEnd    == i + RunLength(s, i, EnvKeyChars)
        eq        == keyEnd + RunLength(s, keyEnd, Whitespace)
        after     == eq + 1 + RunLength(s, eq + 1, Whitespace)
        starts    == {q \in (eq + 1)..after : q <= Len(s) /\ s[q] # "\n"}
    IN  IF /\ lineStart /\ keyEnd > i
           /\ eq <= Len(s) /\ s[eq] = "="
           /\ starts # {}
        THEN [eq |-> eq,
              last |-> LineEnd(s, CHOOSE q \in starts : \A r \in starts : r <= q)]
        ELSE [eq |-> 0, last |-> 0]

\* redactedContent.replace(ENV_VAR_PATTERN, m => `${m.split('=')[0]}=[REDACTED]`)
RECURSIVE EnvReplaceFrom(_, _)
EnvReplaceFrom(s, i) ==
    IF i > Len(s) THEN <<>>
    ELSE LET m == EnvMatchAt(s, i)
         IN  IF m.eq > 0
             THEN SubSeq(s, i, m.eq - 1) \o <<"=", "[REDACTED]">>
                      \o EnvReplaceFrom(s, m.last + 1)
             ELSE <<s[i]>> \o EnvReplaceFrom(s, i + 1)

\* One token, FILLER, stands for a run of FillerChars characters that are in
\* no pattern class and hold no line break; every other token is one
\* character.  Length is content.length.
FILLER == "[filler]"
FillerChars == MAX_SCAN_LENGTH - 4

RECURSIVE Length(_)
Length(s) ==
    IF s = <<>> THEN 0
    ELSE (IF Head(s) = FILLER THEN FillerChars ELSE 1) + Length(Tail(s))

\* redactSecrets skipping a text of exactly MAX_SCAN_LENGTH characters too
redactSecrets_AtLimit(text, path) ==
    IF Length(text) >= MAX_SCAN_LENGTH
    THEN [found |-> FALSE, redactedContent |-> TOO_LARGE_MARKER, detectedSecrets |-> <<>>]
    ELSE LET acc == ApplyPatterns([redacted |-> text, detected |-> <<>>], 1, text)
         IN  [found           |-> Len(acc.detected) > 0,
              redactedContent |-> IF IsEnvPath(path)
                                  THEN EnvReplaceFrom(acc.redacted, 1)
                                  ELSE acc.redacted,
              detectedSecrets |-> acc.detected]

redactSecrets(text, path) ==
    IF Length(text) > MAX_SCAN_LENGTH
    THEN [found |-> FALSE, redactedContent |-> TOO_LARGE_MARKER, detectedSecrets |-> <<>>]
    ELSE LET acc == ApplyPatterns([redacted |-> text, detected |-> <<>>], 1, text)
         IN  [found           |-> Len(acc.detected) > 0,
              redactedContent |-> IF IsEnvPath(path)
                                  THEN EnvReplaceFrom(acc.redacted, 1)
                                  ELSE acc.redacted,
              detectedSecrets |-> acc.detected]

\* What sanitizeForAI passes to console.warn: the detection records.
sanitizeLog(text, path) ==
    LET result == redactSecrets(text, path)
    IN  IF result.found THEN result.detectedSecrets ELSE <<>>

\* sanitizeForAI pushing one warning per detection record
sanitizeForAI_WarningPerDetection(text, path) ==
    LET result == redactSecrets(text, path)
    IN  [content  |-> result.redactedContent,
         warnings |-> [i \in 1..Len(result.detectedSecrets) |->
                          [detected |-> 1, file |-> path]]]

\* sanitizeForAI: one summary warning, carrying the number of detections and
\* the file path, when anything was found.
sanitizeForAI(text, path) ==
    LET result == redactSecrets(text, path)
    IN  [content  |-> result.redactedContent,
         warnings |-> IF result.found
                      THEN <<[detected |-> Len(result.detectedSecrets), file |-> path]>>
                      ELSE <<>>]

----------------------------------------------------------------------------
(* treeUtils.ts                                                            *)
(* A RepoFile is [path, type]: path is the sequence of the segments of     *)
(* file.path.split('/'), type is "blob" or "tree".                         *)

\* Every file or directory name of the model, in a.localeCompare(b) order.
NameOrder ==
    << ".env", "app.ts", "docs", "f0", "f1", "f2", "f3", "f4", "f5", "f6", "f7",
       "index.ts", "LICENSE", "main.ts", "package.json", "README.md", "src",
       "util.ts" >>

NameRank(name) == CHOOSE i \in 1..Len(NameOrder) : NameOrder[i] = name

MAX_TREE_LINES == 500

\* One line of the digest.  kind: "header" | "dir" | "file" | "truncated" |
\* "empty"; prefix and last are the tree-drawing prefix and connector.
Line(kind, prefix, last, name, count) ==
    [kind |-> kind, prefix |-> prefix, last |-> last, name |-> name, count |-> count]

TRUNCATION_LINE == Line("truncated", <<>>, FALSE, "[... truncated for token limit ...]", 0)
EMPTY_REPOSITORY == Line("empty", <<>>, FALSE, "Empty repository", 0)

IsPrefix(p, q) == Len(p) <= Len(q) /\ SubSeq(q, 1, Len(p)) = p

\* buildTree: the nodes are the non-empty prefixes of the paths.  A node is
\* created by the first file (in list order) whose path runs through it
\* (`if (!currentNode.children.has(part))`), as a file when that path ends
\* there and the entry is a blob, as a directory otherwise; later entries
\* leave it as it is.
buildTree(files) ==
    LET nodes == UNION {{SubSeq(files[i].path, 1, k) : k \in 1..Len(files[i].path)} :
                           i \in 1..Len(files)}
        first(n) == CHOOSE i \in 1..Len(files) :
                       /\ IsPrefix(n, files[i].path)
                       /\ \A j \in 1..(i - 1) : ~IsPrefix(n, files[j].path)
    IN  [n \in nodes |->
            IF Len(files[first(n)].path) = Len(n) /\ files[first(n)].type = "blob"
            THEN "file" ELSE "dir"]

\* a comparator that orders by name alone
ChildBefore_ByNameOnly(tree, a, b) == NameRank(a[Len(a)]) <= NameRank(b[Len(b)])

\* the comparator of children.sort: directories first, then by name
ChildBefore(tree, a, b) ==
    IF tree[a] # tree[b] THEN tree[a] = "dir"
    ELSE NameRank(a[Len(a)]) <= NameRank(b[Len(b)])

RECURSIVE SortNodes(_, _)
SortNodes(tree, S) ==
    IF S = {} THEN <<>>
    ELSE LET m == CHOOSE x \in S : \A y \in S : ChildBefore(tree, x, y)
         IN  <<m>> \o SortNodes(tree, S \ {m})

sortedChildren(tree, node) ==
    SortNodes(tree, {q \in DOMAIN tree : Len(q) = Len(node) + 1 /\ IsPrefix(node, q)})

RECURSIVE treeToString(_, _, _, _, _)
RECURSIVE RenderChildren(_, _, _, _, _)

\* treeToString with the cap tested after the push (`>` for `>=`)
treeToString_CapOffByOne(tree, node, prefix, isLast, lines) ==
    IF Len(lines) > MAX_TREE_LINES
    THEN IF Len(lines) = MAX_TREE_LINES + 1 THEN Append(lines, TRUNCATION_LINE) ELSE lines
    ELSE LET pushed    == IF node # <<>>
                          THEN Append(lines, Line(tree[node], prefix, isLast, node[Len(node)], 0))
                          ELSE lines
             newPrefix == IF node # <<>>
                          THEN Append(prefix, IF isLast THEN "    " ELSE "|   ")
                          ELSE <<>>
         IN  RenderChildren(tree, sortedChildren(tree, node), 1, newPrefix, pushed)

\* treeToString(node, prefix, isLast, lines); node <<>> is the root, whose
\* name is empty.  RenderChildren is its sortedChildren.forEach.
treeToString(tree, node, prefix, isLast, lines) ==
    IF Len(lines) >= MAX_TREE_LINES
    THEN IF Len(lines) = MAX_TREE_LINES THEN Append(lines, TRUNCATION_LINE) ELSE lines
    ELSE LET pushed    == IF node # <<>>
                          THEN Append(lines, Line(tree[node], prefix, isLast, node[Len(node)], 0))
                          ELSE lines
             newPrefix == IF node # <<>>
                          THEN Append(prefix, IF isLast THEN "    " ELSE "|   ")
                          ELSE <<>>
         IN  RenderChildren(tree, sortedChildren(tree, node), 1, newPrefix, pushed)

RenderChildren(tree, sorted, i, newPrefix, lines) ==
    IF i > Len(sorted) THEN lines
    ELSE RenderChildren(tree, sorted, i + 1, newPrefix,
            treeToString(tree, sorted[i], newPrefix, i = Len(sorted), lines))

\* generateTreeString: the returned string, as the sequence of its lines
\* (header + lines.join('\n'); the header ends in a line break).
generateTreeString(files) ==
    IF Len(files) = 0 THEN <<EMPTY_REPOSITORY>>
    ELSE <<Line("header", <<>>, FALSE, "Repository Structure", Len(files))>>
            \o treeToString(buildTree(files), <<>>, <<>>, TRUE, <<>>)

\* filterImportantFiles, by file name: the names of NameOrder whose
\* lower-cased form ends in one of importantExtensions (.ts .json .md ...),
\* and those that contain 'readme'.
ImportantNames == {"app.ts", "index.ts", "main.ts", "util.ts", "package.json", "README.md"}
ReadmeNames == {"README.md"}

filterImportantFiles(files) ==
    LET keep(f) == \/ f.path[Len(f.path)] \in ImportantNames
                   \/ \E i \in 1..Len(f.path) : f.path[i] \in ReadmeNames
    IN  SelectSeq(files, keep)

----------------------------------------------------------------------------
(* gemini.ts: the model's response text and its parsing                    *)
(* A response text is a sequence of tokens [t, v]:                          *)
(*   t = "fence"  a markdown code fence, with or without the json tag     *)
(*   t = "ws"     white space                                              *)
(*   t = "punct"  v = <<"[">>, <<"]">> or <<",">>                          *)
(*   t = "str"    a JSON string literal; v is the path it spells          *)
(*   t = "num"    a JSON number                                            *)
(*   t = "obj"    a JSON object, braces to braces; v names its content     *)
(*   t = "word"   text that is no JSON                                     *)

Tok(t, v) == [t |-> t, v |-> v]
FENCE_JSON == Tok("fence", <<"fence-json">>)
FENCE      == Tok("fence", <<"fence">>)
WS         == Tok("ws", <<" ">>)
LBRACKET   == Tok("punct", <<"[">>)
RBRACKET   == Tok("punct", <<"]">>)
COMMA      == Tok("punct", <<",">>)
Str(path)  == Tok("str", path)

\* text.replace(/<fence>json/g, '').replace(/<fence>/g, '').trim()
RECURSIVE TrimStart(_)
TrimStart(s) == IF s # <<>> /\ Head(s).t = "ws" THEN TrimStart(Tail(s)) ELSE s

RECURSIVE TrimEnd(_)
TrimEnd(s) ==
    IF s # <<>> /\ s[Len(s)].t = "ws" THEN TrimEnd(SubSeq(s, 1, Len(s) - 1)) ELSE s

stripFences(s) ==
    LET notFence(tok) == tok.t # "fence"
    IN  TrimEnd(TrimStart(SelectSeq(s, notFence)))

\* the elements of `value (, value)*`, or <<"error">> when s is not of
\* that form; values are scalars or objects
RECURSIVE ParseElements(_)
ParseElements(s) ==
    IF s = <<>> \/ Head(s).t \notin {"str", "num", "obj"} THEN <<"error">>
    ELSE IF Len(s) = 1 THEN <<"ok", <<Head(s)>>>>
    ELSE IF s[2] # COMMA THEN <<"error">>
    ELSE LET rest == ParseElements(SubSeq(s, 3, Len(s)))
         IN  IF rest[1] = "error" THEN <<"error">>
             ELSE <<"ok", <<Head(s)>> \o rest[2]>>

\* JSON.parse: [kind |-> "array", items], [kind |-> "string" | "number" |
\* "object", items |-> <<the token>>], or [kind |-> "SyntaxError"]
JSONparse(s) ==
    LET notWs(tok) == tok.t # "ws"
        j == SelectSeq(s, notWs)
        err == [kind |-> "SyntaxError", items |-> <<>>]
    IN  IF j = <<>> THEN err
        ELSE IF Len(j) = 1
        THEN IF j[1].t = "str" THEN [kind |-> "string", items |-> j]
             ELSE IF j[1].t = "num" THEN [kind |-> "number", items |-> j]
             ELSE IF j[1].t = "obj" THEN [kind |-> "object", items |-> j]
             ELSE err
        ELSE IF j[1] = LBRACKET /\ j[Len(j)] = RBRACKET
        THEN IF Len(j) = 2 THEN [kind |-> "array", items |-> <<>>]
             ELSE LET els == ParseElements(SubSeq(j, 2, Len(j) - 1))
                  IN  IF els[1] = "ok" THEN [kind |-> "array", items |-> els[2]]
                      ELSE err
        ELSE err

----------------------------------------------------------------------------
(* gemini.ts: callLocalLLM and the hosted client                           *)

\* how the request of callLocalLLM can end: fetch rejects, the response is
\* not ok, response.json() rejects, the body holds a content, or none
LocalResults  == {"network-error", "http-error", "invalid-body", "content", "no-content"}
LocalFailures == {"network-error", "http-error", "invalid-body"}

UNCONFIGURED_ERROR == <<"Local Base URL not configured">>

\* `Failed to connect to Local LLM at ${settings.baseUrl}. Is it running?`
connectError(url) == <<"Failed to connect to Local LLM at ", url, ". Is it running?">>

\* callLocalLLM letting the error of fetch through as it is
callLocalLLM_Rethrow(url, result, reply) ==
    IF url = ""
    THEN [threw |-> TRUE, message |-> UNCONFIGURED_ERROR, text |-> <<>>]
    ELSE IF result \in LocalFailures
    THEN [threw |-> TRUE, message |-> <<"[TypeError: fetch failed]">>, text |-> <<>>]
    ELSE [threw |-> FALSE, message |-> <<>>,
          text |-> IF result = "content" THEN reply ELSE <<>>]

\* callLocalLLM for one outcome of its request: every throw inside the try,
\* the one for a response that is not ok included, lands in its catch
callLocalLLM(url, result, reply) ==
    IF url = ""
    THEN [threw |-> TRUE, message |-> UNCONFIGURED_ERROR, text |-> <<>>]
    ELSE IF result \in LocalFailures
    THEN [threw |-> TRUE, message |-> connectError(url), text |-> <<>>]
    ELSE [threw |-> FALSE, message |-> <<>>,
          text |-> IF result = "content" THEN reply ELSE <<>>]

\* the local helper throws before any request when no base URL is set, so
\* such a call cannot return
canAnswer(prov, url) == prov = "local" => url # ""

\* the message of the error ai.models.generateContent rejects with
SDK_ERROR == <<"[GoogleGenAI error]">>

\* the ways a model call can fail, and the message of the error it throws
BackendFailures(prov) == IF prov = "local" THEN LocalFailures ELSE {"sdk-error"}

callError(prov, url, failure) ==
    IF prov = "local" THEN callLocalLLM(url, failure, <<>>).message ELSE SDK_ERROR

----------------------------------------------------------------------------
(* gemini.ts: identifyRelevantFiles                                        *)

MAX_RELEVANT_FILES == 10
FALLBACK_FILES == 5

\* [s[1].f, ..., s[n].f]
RECURSIVE PathsOf(_)
PathsOf(s) == IF s = <<>> THEN <<>> ELSE <<Head(s).path>> \o PathsOf(Tail(s))

RECURSIVE ValuesOf(_)
ValuesOf(s) == IF s = <<>> THEN <<>> ELSE <<Head(s).v>> \o ValuesOf(Tail(s))

\* repoTree.some(f => f.path === filePath)
InTree(tree, path) == \E i \in 1..Len(tree) : tree[i].path = path

\* f.path === 'package.json' || f.path === 'README.md' || f.path.startsWith('src/')
IsFallbackPath(path) ==
    \/ path = <<"package.json">>
    \/ path = <<"README.md">>
    \/ (Len(path) >= 2 /\ path[1] = "src")

\* the fallback as "manifest, readme, and up to 5 entries under src/"
fallbackSelection_FiveSourceFiles(tree) ==
    LET named(f) == f.path = <<"package.json">> \/ f.path = <<"README.md">>
        source(f) == Len(f.path) >= 2 /\ f.path[1] = "src"
    IN  PathsOf(SelectSeq(tree, named))
            \o PathsOf(Substring0(SelectSeq(tree, source), FALLBACK_FILES))

\* the catch branch: repoTree.filter(...).slice(0, 5).map(f => f.path)
fallbackSelection(tree) ==
    LET pick(f) == IsFallbackPath(f.path)
    IN  PathsOf(Substring0(SelectSeq(tree, pick), FALLBACK_FILES))

\* the try block without the validation against repoTree
parseRelevantFiles_Unvalidated(txt, tree) ==
    LET parsed == JSONparse(stripFences(txt))
        isString(tok) == tok.t = "str"
    IN  IF parsed.kind = "array"
        THEN Substring0(ValuesOf(SelectSeq(parsed.items, isString)), MAX_RELEVANT_FILES)
        ELSE fallbackSelection(tree)

\* the try block applied to the response text: strip, parse, validate
\* against repoTree, cut to 10.  JSON.parse throwing, and files.filter
\* throwing because the parsed value is no array, both land in the catch.
parseRelevantFiles(txt, tree) ==
    LET parsed == JSONparse(stripFences(txt))
        valid(tok) == tok.t = "str" /\ InTree(tree, tok.v)
    IN  IF parsed.kind = "array"
        THEN Substring0(ValuesOf(SelectSeq(parsed.items, valid)), MAX_RELEVANT_FILES)
        ELSE fallbackSelection(tree)

\* identifyRelevantFiles without the try/catch around the parse
identifyResult_Uncaught(callOk, txt, tree) ==
    IF callOk /\ JSONparse(stripFences(txt)).kind = "array"
    THEN [outcome |-> "returned", paths |-> parseRelevantFiles(txt, tree)]
    ELSE [outcome |-> "threw", paths |-> <<>>]

\* identifyRelevantFiles from the await on: the call is awaited outside the
\* try block, so its failure leaves the function; a response is parsed
\* inside it, and whatever the parse throws is caught.
identifyResult(callOk, txt, tree) ==
    IF callOk
    THEN [outcome |-> "returned", paths |-> parseRelevantFiles(txt, tree)]
    ELSE [outcome |-> "threw", paths |-> <<>>]

\* a stage-1 prompt that holds the digest of the whole tree
stage1Call_WholeTree(tree) ==
    [stage |-> 1, structure |-> generateTreeString(tree), analyzedFiles |-> <<>>]

\* the prompt of stage 1: the digest of the important files only
stage1Call(tree) ==
    [stage |-> 1, structure |-> generateTreeString(filterImportantFiles(tree)),
     analyzedFiles |-> <<>>]

\* `text = response.text || "[]"` (hosted client); the local helper returns
\* `content || ""`
stage1Text(prov, response) ==
    IF prov = "gemini" /\ response = <<>> THEN <<LBRACKET, RBRACKET>> ELSE response

----------------------------------------------------------------------------
(* github.ts / gemini.ts: fetchAndSanitizeFiles                            *)

FETCH_ERROR == <<"[Error fetching file: ...]">>

\* getFileContent: the text of the response, or, for a response that is not
\* ok and for a failed request alike, the placeholder it returns from its
\* own catch.  It never throws.
getFileContent(result) == IF result.ok THEN result.text ELSE FETCH_ERROR

\* the map callback handing on the fetched text as it came
sanitizedFile_Unscanned(path, raw) ==
    [path |-> path, content |-> raw, warnings |-> <<>>]

\* the body of the map callback after the await: sanitize, build the result.
\* (Its catch branch needs getFileContent or sanitizeForAI to throw.)
sanitizedFile(path, raw) ==
    LET r == sanitizeForAI(raw, path)
    IN  [path |-> path, content |-> r.content, warnings |-> r.warnings]

\* results collected in the order the fetches complete
settle_CompletionOrder(slots, i, file) ==
    LET free == {k \in 1..Len(slots) : slots[k].path = <<>>}
    IN  [slots EXCEPT ![CHOOSE k \in free : \A m \in free : k <= m] = file]

\* Promise.all: the result of the promise of index i goes to slot i
settle(slots, i, file) == [slots EXCEPT ![i] = file]

PER_FILE_CHARS == 5000

\* `\n--- FILE: ${f.path} ---\n${f.content.substring(0, 5000)}` for each file
fileContexts(contents) ==
    [i \in 1..Len(contents) |->
        [path |-> contents[i].path,
         content |-> Substring0(contents[i].content, PER_FILE_CHARS)]]

\* the prompt of stage 2: the digest of the whole tree and the file contexts
stage2Call(tree, contents) ==
    [stage |-> 2, structure |-> generateTreeString(tree),
     analyzedFiles |-> fileContexts(contents)]

\* the parse of generatePlanEnhanced taking any text for a plan
planParses_AnyText(txt) == TRUE

\* the try block of generatePlanEnhanced: JSON.parse, then the assignment
\* plan.researchNotes = ..., which throws on a string or a number
planParses(txt) == JSONparse(stripFences(txt)).kind \in {"object", "array"}

INVALID_PLAN_ERROR == <<"AI generated an invalid plan format. Please try again.">>

----------------------------------------------------------------------------
(* Scanner runs: one text, one call of sanitizeForAI                       *)

\* null, for a Repo or a GeneratedPlan
NULL == [null |-> TRUE]

\* DEFAULT_SETTINGS.baseUrl
DEFAULT_BASE_URL == "http://localhost:11434/v1"

MaxContentLen == 7

\* the texts of n characters
TextsOfLen(n) == [1..n -> Alphabet]

Texts == UNION {TextsOfLen(n) : n \in 0..MaxContentLen}

ScanPaths == {<<"src", "config.ts">>, <<".env">>}

\* the characters of an environment file: upper-case letters ("A", and "P"
\* for the name API_KEY), a lower-case letter, "=" and the line break
EnvAlphabet == {"A", "P", "k", "=", "\n"}

MaxEnvLen == 6

EnvTextsOfLen(n) == [1..n -> EnvAlphabet]

EnvTexts == UNION {EnvTextsOfLen(n) : n \in 0..MaxEnvLen}

EnvPaths == {<<".env">>, <<"config", ".env.local">>}

\* the variables of a run that does not take place
IdleScan ==
    /\ content = <<>> /\ filePath = <<>> /\ scanPc = "off"
    /\ scanOut = [content |-> <<>>, warnings |-> <<>>]
    /\ scanDetected = <<>> /\ consoleLog = <<>>

IdleTree == inputFiles = <<>> /\ treePc = "off" /\ treeString = <<>>

IdleRun ==
    /\ repoTree = <<>> /\ provider = "gemini" /\ pc = "off" /\ responseText = <<>>
    /\ relevantFilePaths = <<>> /\ fetchRequests = <<>> /\ rawContent = <<>>
    /\ fileContents = <<>> /\ settleOrder = <<>> /\ modelCalls = <<>>
    /\ backend = <<>> /\ outcome = "none"
    /\ baseUrl = DEFAULT_BASE_URL /\ error = <<>>

\* the App before its first render, no handler running
IdleApp ==
    /\ appState = "SETUP_REQUIRED" /\ selectedRepo = NULL /\ plan = NULL
    /\ isAnalyzing = FALSE /\ loadingStage = <<>> /\ alerts = <<>>
    /\ githubRequests = <<>> /\ githubResponses = <<>> /\ fetchedTree = <<>> /\ researchNotes = <<>>
    /\ currentPlan = NULL

IdleSearch ==
    /\ query = <<>> /\ debouncedQuery = <<>> /\ timer = FALSE /\ runs = <<>>
    /\ results = <<>> /\ searchError = NULL /\ loading = FALSE

IdleChat == chatHistory = <<>> /\ input = <<>> /\ loadingChat = FALSE /\ asksInFlight = 0

IdleUi == IdleSearch /\ IdleChat

InitScan ==
    /\ IdleUi
    /\ IdleTree /\ IdleRun /\ IdleApp
    /\ content \in Texts
    /\ filePath \in ScanPaths
    /\ scanPc = "ready"
    /\ scanOut = [content |-> <<>>, warnings |-> <<>>]
    /\ scanDetected = <<>>
    /\ consoleLog = <<>>

Sanitize ==
    /\ scanPc = "ready"
    /\ scanOut' = sanitizeForAI(content, filePath)
    /\ scanDetected' = redactSecrets(content, filePath).detectedSecrets
    /\ consoleLog' = sanitizeLog(content, filePath)
    /\ scanPc' = "done"
    /\ UNCHANGED <<content, filePath>>
    /\ UNCHANGED <<treeVars, runVars, appVars>>
    /\ UNCHANGED <<uiVars, githubResponses>>

NextScan == Sanitize

SpecScan == InitScan /\ [][NextScan]_vars

MaxTailLen == 5

\* texts of MAX_SCAN_LENGTH - 3 characters and more: the filler, a line
\* break, and a short text
LargeTexts == UNION { {<<FILLER, "\n">> \o t : t \in TextsOfLen(n)} : n \in 0..MaxTailLen }

\* the scanner on a text around the size limit
InitLarge ==
    /\ IdleUi
    /\ IdleTree /\ IdleRun /\ IdleApp
    /\ content \in LargeTexts
    /\ filePath \in ScanPaths
    /\ scanPc = "ready"
    /\ scanOut = [content |-> <<>>, warnings |-> <<>>]
    /\ scanDetected = <<>>
    /\ consoleLog = <<>>

SpecLarge == InitLarge /\ [][NextScan]_vars

\* the scanner on the text of an environment file
InitEnv ==
    /\ IdleUi
    /\ IdleTree /\ IdleRun /\ IdleApp
    /\ content \in EnvTexts
    /\ filePath \in EnvPaths
    /\ scanPc = "ready"
    /\ scanOut = [content |-> <<>>, warnings |-> <<>>]
    /\ scanDetected = <<>>
    /\ consoleLog = <<>>

SpecEnv == InitEnv /\ [][NextScan]_vars

----------------------------------------------------------------------------
(* Digest runs: one entry list, one call of generateTreeString             *)

Blob(path) == [path |-> path, type |-> "blob"]
Dir(path)  == [path |-> path, type |-> "tree"]

\* short entry lists, any order, repeated and conflicting entries included
TreeEntryUniverse ==
    { Dir(<<"src">>), Blob(<<"src">>), Blob(<<"src", "app.ts">>),
      Blob(<<"src", "index.ts">>), Blob(<<"README.md">>), Dir(<<"docs">>) }

MaxTreeEntries == 3

RECURSIVE EntryListsOfLen(_)
EntryListsOfLen(n) ==
    IF n = 0 THEN {<<>>}
    ELSE {Append(l, e) : l \in EntryListsOfLen(n - 1), e \in TreeEntryUniverse}

\* long entry lists: the first n files of f0/f0/f0, f0/f0/f1, ... f7/f7/f7
Pool == <<"f0", "f1", "f2", "f3", "f4", "f5", "f6", "f7">>

BulkPath(k) ==
    << Pool[((k \div (Len(Pool) * Len(Pool))) % Len(Pool)) + 1],
       Pool[((k \div Len(Pool)) % Len(Pool)) + 1],
       Pool[(k % Len(Pool)) + 1] >>

BulkTree(n) == [k \in 1..n |-> Blob(BulkPath(k - 1))]

MaxBulkFiles == 440
BulkWindow == 4

TreeInputs ==
    UNION {EntryListsOfLen(n) : n \in 0..MaxTreeEntries}
        \cup {BulkTree(MaxBulkFiles - d) : d \in 0..BulkWindow}

InitTree ==
    /\ IdleUi
    /\ IdleScan /\ IdleRun /\ IdleApp
    /\ inputFiles \in TreeInputs
    /\ treePc = "ready"
    /\ treeString = <<>>

GenerateTreeString ==
    /\ treePc = "ready"
    /\ treeString' = generateTreeString(inputFiles)
    /\ treePc' = "done"
    /\ UNCHANGED inputFiles
    /\ UNCHANGED <<scanVars, runVars, appVars>>
    /\ UNCHANGED <<uiVars, githubResponses>>

NextTree == GenerateTreeString

SpecTree == InitTree /\ [][NextTree]_vars

----------------------------------------------------------------------------
(* Inputs of the analysis runs                                             *)

\* the entries a tree is drawn from, in the order of a git tree listing
TreeUniverse ==
    << Blob(<<"LICENSE">>), Blob(<<"README.md">>), Blob(<<"package.json">>),
       Dir(<<"src">>), Blob(<<"src", "app.ts">>), Blob(<<"src", "index.ts">>),
       Blob(<<"src", "main.ts">>), Blob(<<"src", "util.ts">>) >>

\* the subsequences of u
RECURSIVE Subsequences(_)
Subsequences(u) ==
    IF u = <<>> THEN {<<>>}
    ELSE LET rest == Subsequences(Tail(u))
         IN  rest \cup {<<Head(u)>> \o r : r \in rest}

Providers == {"gemini", "local"}

\* what a response array may hold: paths of the universe, a path of no
\* tree, a number
HALLUCINATED == <<"node_modules", "x", "y.js">>
NUMBER == Tok("num", <<"42">>)
ResponseItems ==
    { Str(<<"README.md">>), Str(<<"LICENSE">>), Str(<<"src">>), Str(<<"src", "app.ts">>),
      Str(HALLUCINATED), NUMBER }

\* JSON.stringify of an array of items
RECURSIVE Joined(_)
Joined(items) ==
    IF items = <<>> THEN <<>>
    ELSE IF Len(items) = 1 THEN items
    ELSE <<Head(items), COMMA>> \o Joined(Tail(items))

ArrayText(items) == <<LBRACKET>> \o Joined(items) \o <<RBRACKET>>
Fenced(txt) == <<FENCE_JSON, WS>> \o txt \o <<WS, FENCE>>

RECURSIVE ItemListsOfLen(_, _)
ItemListsOfLen(S, n) ==
    IF n = 0 THEN {<<>>}
    ELSE {Append(l, e) : l \in ItemListsOfLen(S, n - 1), e \in S}

\* the universe's paths, over and over: k items, all of them paths
Cycled(k) == [i \in 1..k |-> Str(TreeUniverse[((i - 1) % Len(TreeUniverse)) + 1].path)]

MaxResponseItems == 2
MaxLongResponse == 11

\* responses that are no JSON array
OtherResponses ==
    { <<>>,                                              \* empty text
      <<Tok("word", <<"Sure!">>)>>,                      \* prose
      <<LBRACKET, Str(<<"README.md">>)>>,                \* cut short
      <<LBRACKET, Str(<<"README.md">>), Str(<<"LICENSE">>), RBRACKET>>, \* no comma
      <<Tok("obj", <<"files">>)>>,                       \* an object
      <<Str(<<"README.md">>)>>,                          \* a bare string
      <<NUMBER>>,                                        \* a bare number
      <<Tok("word", <<"Here:">>), WS, LBRACKET, RBRACKET>> }  \* prose, then JSON

ArrayResponses(S, n) ==
    LET arrays == {ArrayText(l) : l \in UNION {ItemListsOfLen(S, k) : k \in 0..n}}
    IN  arrays \cup {Fenced(a) : a \in arrays}

Stage1Responses ==
    ArrayResponses(ResponseItems, MaxResponseItems)
        \cup {ArrayText(Cycled(k)) : k \in (MaxResponseItems + 1)..MaxLongResponse}
        \cup OtherResponses

RECURSIVE Reversed(_)
Reversed(s) == IF s = <<>> THEN <<>> ELSE Append(Reversed(Tail(s)), Head(s))

\* The order of the list is the hosting API's: the program neither sorts
\* the list nor checks its order.
IdentifyTrees ==
    Subsequences(TreeUniverse) \cup {Reversed(t) : t \in Subsequences(TreeUniverse)}

----------------------------------------------------------------------------
(* identifyRelevantFiles, called on its own                                *)

InitIdentify ==
    /\ IdleUi
    /\ IdleScan /\ IdleTree /\ IdleApp
    /\ repoTree \in IdentifyTrees
    /\ provider \in Providers
    /\ pc = "identify"
    /\ responseText = <<>>
    /\ relevantFilePaths = <<>> /\ fetchRequests = <<>> /\ rawContent = <<>>
    /\ fileContents = <<>> /\ settleOrder = <<>> /\ modelCalls = <<>>
    /\ backend = <<>> /\ outcome = "none"
    /\ baseUrl = DEFAULT_BASE_URL /\ error = <<>>

\* up to the await: filter, digest, prompt, the call to the backend
IdentifyCall ==
    /\ pc = "identify"
    /\ modelCalls' = Append(modelCalls, stage1Call(repoTree))
    /\ pc' = "identify-await"
    /\ UNCHANGED <<baseUrl, error, repoTree, provider, responseText, relevantFilePaths, fetchRequests,
                   rawContent, fileContents, settleOrder, backend, outcome>>
    /\ UNCHANGED <<scanVars, treeVars, appVars>>
    /\ UNCHANGED <<uiVars, githubResponses>>

\* the backend answers: the try/catch around the parse, and the return
IdentifyReturn ==
    /\ pc = "identify-await"
    /\ canAnswer(provider, baseUrl)
    /\ \E response \in Stage1Responses :
          LET txt == stage1Text(provider, response)
              res == identifyResult(TRUE, txt, repoTree)
          IN  /\ responseText' = txt
              /\ relevantFilePaths' = res.paths
              /\ outcome' = res.outcome
    /\ backend' = Append(backend, "ok")
    /\ pc' = "identified"
    /\ UNCHANGED <<baseUrl, error, repoTree, provider, fetchRequests, rawContent, fileContents,
                   settleOrder, modelCalls>>
    /\ UNCHANGED <<scanVars, treeVars, appVars>>
    /\ UNCHANGED <<uiVars, githubResponses>>

\* the call fails (callLocalLLM throws, generateContent rejects)
IdentifyThrow ==
    /\ pc = "identify-await"
    /\ LET res == identifyResult(FALSE, <<>>, repoTree)
       IN  /\ relevantFilePaths' = res.paths
           /\ outcome' = res.outcome
    /\ backend' = Append(backend, "error")
    /\ \E failure \in BackendFailures(provider) :
          error' = callError(provider, baseUrl, failure)
    /\ pc' = "identified"
    /\ UNCHANGED <<baseUrl, repoTree, provider, responseText, fetchRequests,
                   rawContent, fileContents, settleOrder, modelCalls>>
    /\ UNCHANGED <<scanVars, treeVars, appVars>>
    /\ UNCHANGED <<uiVars, githubResponses>>

NextIdentify == IdentifyCall \/ IdentifyReturn \/ IdentifyThrow

SpecIdentify == InitIdentify /\ [][NextIdentify]_vars

----------------------------------------------------------------------------
(* generatePlanEnhanced: one analysis run                                  *)

RunUniverse ==
    << Blob(<<"LICENSE">>), Blob(<<"README.md">>), Dir(<<"src">>),
       Blob(<<"src", "app.ts">>) >>

MaxRunFiles == 2

RunResponses == ArrayResponses(ResponseItems, MaxRunFiles) \cup OtherResponses

\* the text of a fetched file: without and with a secret in it
CleanText  == <<"A", "\n", "A">>
SecretText == <<"A", "K", "A">>

FetchResults ==
    { [ok |-> TRUE, text |-> CleanText], [ok |-> TRUE, text |-> SecretText],
      [ok |-> FALSE, text |-> <<>>] }

PlanResponses ==
    { <<Tok("obj", <<"plan">>)>>, Fenced(<<Tok("obj", <<"plan">>)>>),
      <<Tok("word", <<"Sure!">>)>>, <<>>, <<Str(<<"README.md">>)>> }

EMPTY_SLOT == [path |-> <<>>, content |-> <<>>, warnings |-> <<>>]
UNSETTLED == [settled |-> FALSE, ok |-> FALSE, text |-> <<>>]

InitRun ==
    /\ IdleUi
    /\ IdleScan /\ IdleTree /\ IdleApp
    /\ repoTree \in Subsequences(RunUniverse)
    /\ provider \in Providers
    /\ pc = "start"
    /\ responseText = <<>>
    /\ relevantFilePaths = <<>> /\ fetchRequests = <<>> /\ rawContent = <<>>
    /\ fileContents = <<>> /\ settleOrder = <<>> /\ modelCalls = <<>>
    /\ backend = <<>> /\ outcome = "none"
    /\ baseUrl = DEFAULT_BASE_URL /\ error = <<>>

\* identifyRelevantFiles up to its await
Stage1Call ==
    /\ pc = "start"
    /\ modelCalls' = Append(modelCalls, stage1Call(repoTree))
    /\ pc' = "stage1-await"
    /\ UNCHANGED <<baseUrl, error, repoTree, provider, responseText, relevantFilePaths, fetchRequests,
                   rawContent, fileContents, settleOrder, backend, outcome>>
    /\ UNCHANGED <<scanVars, treeVars, appVars>>
    /\ UNCHANGED <<uiVars, githubResponses>>

\* stage 1 answers; identifyRelevantFiles returns; fetchAndSanitizeFiles
\* starts one getFileContent per path, in list order (filePaths.map)
Stage1Return ==
    /\ pc = "stage1-await"
    /\ canAnswer(provider, baseUrl)
    /\ \E response \in RunResponses :
          LET res == identifyResult(TRUE, stage1Text(provider, response), repoTree)
          IN  /\ relevantFilePaths' = res.paths
              /\ fetchRequests' = res.paths
              /\ rawContent' = [i \in 1..Len(res.paths) |-> UNSETTLED]
              /\ fileContents' = [i \in 1..Len(res.paths) |-> EMPTY_SLOT]
    /\ backend' = Append(backend, "ok")
    /\ pc' = "fetching"
    /\ UNCHANGED <<baseUrl, error, repoTree, provider, responseText, settleOrder, modelCalls, outcome>>
    /\ UNCHANGED <<scanVars, treeVars, appVars>>
    /\ UNCHANGED <<uiVars, githubResponses>>

\* the stage-1 call fails and identifyRelevantFiles is entered once more
Stage1Throw_Retry ==
    /\ pc = "stage1-await"
    /\ backend' = Append(backend, "error")
    /\ \E failure \in BackendFailures(provider) :
          error' = callError(provider, baseUrl, failure)
    /\ pc' = IF Len(backend) = 0 THEN "start" ELSE "failed"
    /\ outcome' = IF Len(backend) = 0 THEN outcome ELSE "threw"
    /\ UNCHANGED <<baseUrl, repoTree, provider, responseText, relevantFilePaths, fetchRequests,
                   rawContent, fileContents, settleOrder, modelCalls>>
    /\ UNCHANGED <<scanVars, treeVars, appVars>>
    /\ UNCHANGED <<uiVars, githubResponses>>

\* the stage-1 call fails: the error leaves generatePlanEnhanced
Stage1Throw ==
    /\ pc = "stage1-await"
    /\ outcome' = identifyResult(FALSE, <<>>, repoTree).outcome
    /\ backend' = Append(backend, "error")
    /\ \E failure \in BackendFailures(provider) :
          error' = callError(provider, baseUrl, failure)
    /\ pc' = "failed"
    /\ UNCHANGED <<baseUrl, repoTree, provider, responseText, relevantFilePaths, fetchRequests,
                   rawContent, fileContents, settleOrder, modelCalls>>
    /\ UNCHANGED <<scanVars, treeVars, appVars>>
    /\ UNCHANGED <<uiVars, githubResponses>>

\* one getFileContent settles, with a text or a failure: the rest of the
\* map callback runs and its promise resolves
FetchSettle(i) ==
    /\ pc = "fetching"
    /\ i \in 1..Len(rawContent)
    /\ ~rawContent[i].settled
    /\ \E result \in FetchResults :
          LET raw == getFileContent(result)
          IN  /\ rawContent' = [rawContent EXCEPT
                                   ![i] = [settled |-> TRUE, ok |-> result.ok, text |-> raw]]
              /\ fileContents' = settle(fileContents, i, sanitizedFile(relevantFilePaths[i], raw))
    /\ settleOrder' = Append(settleOrder, i)
    /\ UNCHANGED <<baseUrl, error, repoTree, provider, pc, responseText, relevantFilePaths, fetchRequests,
                   modelCalls, backend, outcome>>
    /\ UNCHANGED <<scanVars, treeVars, appVars>>
    /\ UNCHANGED <<uiVars, githubResponses>>

\* the stage-2 call issued without waiting for Promise.all
Stage2Call_Early ==
    /\ pc = "fetching"
    /\ modelCalls' = Append(modelCalls, stage2Call(repoTree, fileContents))
    /\ pc' = "stage2-await"
    /\ UNCHANGED <<baseUrl, error, repoTree, provider, responseText, relevantFilePaths, fetchRequests,
                   rawContent, fileContents, settleOrder, backend, outcome>>
    /\ UNCHANGED <<scanVars, treeVars, appVars>>
    /\ UNCHANGED <<uiVars, githubResponses>>

\* Promise.all resolves; fetchAndSanitizeFiles returns; the prompt of stage 2
\* is built and the call issued
Stage2Call ==
    /\ pc = "fetching"
    /\ \A i \in 1..Len(rawContent) : rawContent[i].settled
    /\ modelCalls' = Append(modelCalls, stage2Call(repoTree, fileContents))
    /\ pc' = "stage2-await"
    /\ UNCHANGED <<baseUrl, error, repoTree, provider, responseText, relevantFilePaths, fetchRequests,
                   rawContent, fileContents, settleOrder, backend, outcome>>
    /\ UNCHANGED <<scanVars, treeVars, appVars>>
    /\ UNCHANGED <<uiVars, githubResponses>>

\* stage 2 answers: the plan is parsed and returned, or the parse error is
\* rethrown as "AI generated an invalid plan format"
Stage2Return ==
    /\ pc = "stage2-await"
    /\ canAnswer(provider, baseUrl)
    /\ \E response \in PlanResponses :
          /\ responseText' = response
          /\ outcome' = IF planParses(response) THEN "returned" ELSE "threw"
          /\ pc' = IF planParses(response) THEN "done" ELSE "failed"
          /\ error' = IF planParses(response) THEN error ELSE INVALID_PLAN_ERROR
    /\ backend' = Append(backend, "ok")
    /\ UNCHANGED <<baseUrl, repoTree, provider, relevantFilePaths, fetchRequests,
                   rawContent, fileContents, settleOrder, modelCalls>>
    /\ UNCHANGED <<scanVars, treeVars, appVars>>
    /\ UNCHANGED <<uiVars, githubResponses>>

\* the stage-2 call fails
Stage2Throw ==
    /\ pc = "stage2-await"
    /\ outcome' = "threw"
    /\ backend' = Append(backend, "error")
    /\ \E failure \in BackendFailures(provider) :
          error' = callError(provider, baseUrl, failure)
    /\ pc' = "failed"
    /\ UNCHANGED <<baseUrl, repoTree, provider, responseText, relevantFilePaths, fetchRequests,
                   rawContent, fileContents, settleOrder, modelCalls>>
    /\ UNCHANGED <<scanVars, treeVars, appVars>>
    /\ UNCHANGED <<uiVars, githubResponses>>

NextRun ==
    \/ Stage1Call \/ Stage1Return \/ Stage1Throw
    \/ \E i \in 1..MaxRunFiles : FetchSettle(i)
    \/ Stage2Call \/ Stage2Return \/ Stage2Throw

SpecRun == InitRun /\ [][NextRun]_vars

----------------------------------------------------------------------------
(* gemini.ts: refactorPlan, and the plan of generatePlanEnhanced           *)

\* a property that is absent (undefined)
UNDEFINED == "undefined"

\* a parsed plan: a JSON object or array with the properties the App reads
Plan(kind, title, summary, notes, steps) ==
    [kind |-> kind, title |-> title, summary |-> summary,
     researchNotes |-> notes, steps |-> steps]

PlanKeys == <<"title", "summary", "researchNotes", "steps">>

\* the members of an object token: v is key, value, key, value, ...
Field(v, key) ==
    IF \E i \in 1..Len(v) : i % 2 = 1 /\ i < Len(v) /\ v[i] = key
    THEN v[(CHOOSE i \in 1..Len(v) : i % 2 = 1 /\ i < Len(v) /\ v[i] = key) + 1]
    ELSE UNDEFINED

RECURSIVE Members(_, _)
Members(p, k) ==
    IF k > Len(PlanKeys) THEN <<>>
    ELSE (IF p[PlanKeys[k]] = UNDEFINED THEN <<>> ELSE <<PlanKeys[k], p[PlanKeys[k]]>>)
             \o Members(p, k + 1)

\* JSON.stringify(plan): undefined properties are left out, and so are the
\* named properties of an array
JSONstringify(p) ==
    IF p.kind = "array" THEN <<LBRACKET, RBRACKET>> ELSE <<Tok("obj", Members(p, 1))>>

\* the value JSON.parse gave, read as a GeneratedPlan (the cast checks nothing)
planOf(parsed) ==
    IF parsed.kind = "object"
    THEN LET v == parsed.items[1].v
         IN  Plan("object", Field(v, "title"), Field(v, "summary"),
                  Field(v, "researchNotes"), Field(v, "steps"))
    ELSE Plan("array", UNDEFINED, UNDEFINED, UNDEFINED, UNDEFINED)

Falsy(x) == x \in {UNDEFINED, ""}

\* the message of the SyntaxError / TypeError that JSON.parse or the
\* assignment throws; refactorPlan rethrows it as it is
PARSE_ERROR == <<"[SyntaxError or TypeError of the parse]">>

\* the try block of generatePlanEnhanced on a text that parses
generatedPlan(txt, notes) ==
    [planOf(JSONparse(stripFences(txt))) EXCEPT !.researchNotes = notes]

\* refactorPlan keeping the notes of the response as they are
refactorPlan_NotesAsAnswered(current, txt) ==
    LET parsed == JSONparse(stripFences(txt))
    IN  IF parsed.kind \notin {"object", "array"}
        THEN [threw |-> TRUE, message |-> PARSE_ERROR, plan |-> NULL]
        ELSE [threw |-> FALSE, message |-> <<>>, plan |-> planOf(parsed)]

\* the try block of refactorPlan: parse, carry the notes over, return; a
\* JSON string or number makes the assignment throw
refactorPlan(current, txt) ==
    LET parsed  == JSONparse(stripFences(txt))
        newPlan == planOf(parsed)
    IN  IF parsed.kind \notin {"object", "array"}
        THEN [threw |-> TRUE, message |-> PARSE_ERROR, plan |-> NULL]
        ELSE [threw |-> FALSE, message |-> <<>>,
              plan |-> IF Falsy(newPlan.researchNotes)
                       THEN [newPlan EXCEPT !.researchNotes = current.researchNotes]
                       ELSE newPlan]

\* the prompt of refactorPlan holds JSON.stringify(currentPlan, null, 2)
refactorCall(current) == [stage |-> 3, plan |-> JSONstringify(current)]

----------------------------------------------------------------------------
(* Refinement runs: refactorPlan called again and again on its own result  *)

MaxRefinements == 2

\* what performDeepResearch can have returned: never the empty string
ResearchTexts == {"notes-1", "notes-2"}

\* plans as generatePlanEnhanced returns them: researchNotes is set
SynthesizedPlans ==
    { Plan("object", t, sm, n, "steps-1") :
          t \in {"title-1", UNDEFINED}, sm \in {"summary-1"}, n \in ResearchTexts }

\* what the backend can answer to a refinement request for plan p
RefactorResponses(p) ==
    { JSONstringify(p),
      Fenced(JSONstringify(p)),
      JSONstringify([p EXCEPT !.researchNotes = UNDEFINED]),
      JSONstringify([p EXCEPT !.researchNotes = ""]),
      JSONstringify([p EXCEPT !.researchNotes = "notes-2"]),
      JSONstringify([p EXCEPT !.title = "title-2", !.researchNotes = UNDEFINED]),
      JSONstringify([p EXCEPT !.title = "title-2", !.steps = "steps-2"]),
      <<LBRACKET, RBRACKET>>,
      <<Tok("word", <<"Sure!">>)>>, <<Str(<<"README.md">>)>>, <<>> }

REPO == [full_name |-> "owner/repo", default_branch |-> "main"]

InitRefine ==
    /\ IdleUi
    /\ IdleScan /\ IdleTree
    /\ repoTree = <<>> /\ provider \in Providers /\ pc = "plan-ready"
    /\ responseText = <<>>
    /\ relevantFilePaths = <<>> /\ fetchRequests = <<>> /\ rawContent = <<>>
    /\ fileContents = <<>> /\ settleOrder = <<>> /\ modelCalls = <<>>
    /\ backend = <<>> /\ outcome = "none"
    /\ baseUrl = DEFAULT_BASE_URL /\ error = <<>>
    /\ appState = "VIEW_PLAN" /\ selectedRepo = REPO
    /\ plan \in SynthesizedPlans
    /\ isAnalyzing = FALSE /\ loadingStage = <<>> /\ alerts = <<>>
    /\ githubRequests = <<>> /\ githubResponses = <<>> /\ fetchedTree = <<>> /\ researchNotes = <<>>
    /\ currentPlan = NULL

\* refactorPlan(plan, feedback, context) up to its await
RefactorCall ==
    /\ pc = "plan-ready"
    /\ Len(modelCalls) < MaxRefinements
    /\ currentPlan' = plan
    /\ modelCalls' = Append(modelCalls, refactorCall(plan))
    /\ pc' = "refactor-await"
    /\ UNCHANGED <<baseUrl, error, repoTree, provider, responseText, relevantFilePaths,
                   fetchRequests, rawContent, fileContents, settleOrder, backend, outcome>>
    /\ UNCHANGED <<appState, selectedRepo, plan, isAnalyzing, loadingStage, alerts,
                   githubRequests, fetchedTree, researchNotes>>
    /\ UNCHANGED <<scanVars, treeVars>>
    /\ UNCHANGED <<uiVars, githubResponses>>

\* the backend answers: refactorPlan returns the new plan, which
\* handlePlanUpdate stores, or rethrows the error of the parse
RefactorReturn ==
    /\ pc = "refactor-await"
    /\ canAnswer(provider, baseUrl)
    /\ \E response \in RefactorResponses(currentPlan) :
          LET res == refactorPlan(currentPlan, response)
          IN  /\ responseText' = response
              /\ outcome' = IF res.threw THEN "threw" ELSE "returned"
              /\ error' = res.message
              /\ plan' = IF res.threw THEN plan ELSE res.plan
    /\ backend' = Append(backend, "ok")
    /\ pc' = "plan-ready"
    /\ UNCHANGED <<baseUrl, repoTree, provider, relevantFilePaths, fetchRequests,
                   rawContent, fileContents, settleOrder, modelCalls>>
    /\ UNCHANGED <<appState, selectedRepo, isAnalyzing, loadingStage, alerts,
                   githubRequests, fetchedTree, researchNotes, currentPlan>>
    /\ UNCHANGED <<scanVars, treeVars>>
    /\ UNCHANGED <<uiVars, githubResponses>>

\* the call fails: the error leaves refactorPlan
RefactorThrow ==
    /\ pc = "refactor-await"
    /\ \E failure \in BackendFailures(provider) :
          error' = callError(provider, baseUrl, failure)
    /\ outcome' = "threw"
    /\ backend' = Append(backend, "error")
    /\ pc' = "plan-ready"
    /\ UNCHANGED <<baseUrl, repoTree, provider, responseText, relevantFilePaths,
                   fetchRequests, rawContent, fileContents, settleOrder, modelCalls>>
    /\ UNCHANGED appVars
    /\ UNCHANGED <<scanVars, treeVars>>
    /\ UNCHANGED <<uiVars, githubResponses>>

NextRefine == RefactorCall \/ RefactorReturn \/ RefactorThrow

SpecRefine == InitRefine /\ [][NextRefine]_vars

----------------------------------------------------------------------------
(* github.ts: shouldExcludeFile and getRepoTree                            *)

EXCLUDED_PATHS ==
    {"node_modules", ".git", "dist", "build", "out", "coverage", ".next", ".nuxt",
     "vendor", "__pycache__", ".venv", "venv", "target", ".idea", ".vscode"}

EXCLUDED_EXTENSIONS ==
    {".png", ".jpg", ".jpeg", ".gif", ".svg", ".ico", ".webp",
     ".mp4", ".mov", ".avi", ".mkv",
     ".mp3", ".wav", ".flac",
     ".zip", ".tar", ".gz", ".rar", ".7z",
     ".exe", ".dll", ".so", ".dylib",
     ".lock", ".log",
     ".min.js", ".min.css",
     ".map",
     ".woff", ".woff2", ".ttf", ".eot",
     ".pdf", ".doc", ".docx"}

MAX_FILE_SIZE == 102400

\* String.prototype.toLowerCase on the file names used here
toLowerCase(name) ==
    CASE name = "logo.PNG"  -> "logo.png"
      [] name = "README.md" -> "readme.md"
      [] name = "LICENSE"   -> "license"
      [] OTHER              -> name

\* the endings of a (lower-case) name that begin with a dot: the only
\* endings one of EXCLUDED_EXTENSIONS can be equal to
dotEndings(name) ==
    CASE name = "logo.png"   -> {".png"}
      [] name = "logo.PNG"   -> {".PNG"}
      [] name = "readme.md"  -> {".md"}
      [] name = "README.md"  -> {".md"}
      [] name = "app.ts"     -> {".ts"}
      [] name = "big.ts"     -> {".ts"}
      [] name = "build.ts"   -> {".ts"}
      [] name = "x.js"       -> {".js"}
      [] name = "app.min.js" -> {".min.js", ".js"}
      [] name = "yarn.lock"  -> {".lock"}
      [] OTHER               -> {}

\* path.endsWith(ext) for an ext that starts with a dot: the last segment
\* decides, since no extension holds a '/'
endsWith(path, ext) == Len(path) > 0 /\ ext \in dotEndings(path[Len(path)])

\* size > MAX_FILE_SIZE only (an entry of exactly the limit is dropped too)
shouldExcludeFile_AtLimit(path, size) ==
    \/ \E k \in 1..Len(path) : path[k] \in EXCLUDED_PATHS
    \/ \E ext \in EXCLUDED_EXTENSIONS :
          endsWith([k \in 1..Len(path) |-> toLowerCase(path[k])], ext)
    \/ size # 0 /\ size >= MAX_FILE_SIZE

\* shouldExcludeFile(path, size); size is 0 when the entry has none
shouldExcludeFile(path, size) ==
    \/ \E k \in 1..Len(path) : path[k] \in EXCLUDED_PATHS
    \/ \E ext \in EXCLUDED_EXTENSIONS :
          endsWith([k \in 1..Len(path) |-> toLowerCase(path[k])], ext)
    \/ size # 0 /\ size > MAX_FILE_SIZE

\* an entry of the Git tree API with its size member
Sized(entry, size) == [path |-> entry.path, type |-> entry.type, size |-> size]

sizeOf(item) == IF "size" \in DOMAIN item THEN item.size ELSE 0

\* treeData.tree.filter(item => !shouldExcludeFile(item.path, item.size))
filteredTree(tree) ==
    LET keep(item) == ~shouldExcludeFile(item.path, sizeOf(item))
    IN  SelectSeq(tree, keep)

\* the Errors getRepoTree throws; statusText is response.statusText
BRANCH_ERROR(statusText) == <<"Failed to fetch branch ", "main", ". Status: ", statusText>>
RATE_LIMIT_ERROR == <<"GitHub API rate limit exceeded. Please try again later.">>
TREE_ERROR(statusText) == <<"Failed to fetch repository tree. Status: ", statusText>>
FETCH_TYPE_ERROR == <<"[TypeError of fetch or of reading the response]">>

\* How a request can end.  status 0: fetch rejected, there is no response.
\* body: whether the JSON of an ok response has the shape the code reads.
HttpResult(status, statusText, body) ==
    [status |-> status, statusText |-> statusText, body |-> body]

NETWORK_ERROR == HttpResult(0, "", "none")

\* response.statusText is the reason phrase of an HTTP/1.1 response and the
\* empty string over HTTP/2.  That of an ok response is never read.
StatusTexts(status) ==
    CASE status = 200 -> {"OK"}
      [] status = 403 -> {"", "Forbidden"}
      [] status = 404 -> {"", "Not Found"}
      [] OTHER        -> {"", "Internal Server Error"}

HttpResults ==
    {NETWORK_ERROR}
        \cup UNION { {HttpResult(st, t, "none") : t \in StatusTexts(st)} : st \in {403, 404, 500} }
        \cup {HttpResult(200, t, body) : t \in StatusTexts(200), body \in {"valid", "invalid"}}

\* how the ref request can end
BranchResults == HttpResults

\* how the tree request can end
TreeResults == HttpResults

\* response.ok, and a body that is read without a TypeError
Succeeded(result) == result.status = 200 /\ result.body = "valid"

\* `if (!branchResponse.ok) throw new Error(...)`; otherwise what fetch or
\* the reading of the body threw
branchError(result) ==
    IF result.status \notin {0, 200} THEN BRANCH_ERROR(result.statusText)
    ELSE FETCH_TYPE_ERROR

\* `if (treeResponse.status === 403) ...; if (!treeResponse.ok) ...`
treeError(result) ==
    CASE result.status = 403           -> RATE_LIMIT_ERROR
      [] result.status \notin {0, 200} -> TREE_ERROR(result.statusText)
      [] OTHER                         -> FETCH_TYPE_ERROR

refRequest(repo)  == <<"GET /repos/", repo.full_name, "/git/ref/heads/", repo.default_branch>>
treeRequest(repo) == <<"GET /repos/", repo.full_name, "/git/trees/", "[sha]", "?recursive=1">>

----------------------------------------------------------------------------
(* getRepoTree runs                                                        *)

MaxFetchedEntries == 2

\* entries GitHub can hold, kept and dropped ones of every kind
RemoteEntries ==
    { Sized(Blob(<<"README.md">>), 1),
      Dir(<<"src">>),
      Sized(Blob(<<"src", "app.ts">>), MAX_FILE_SIZE),
      Sized(Blob(<<"src", "big.ts">>), MAX_FILE_SIZE + 1),
      Sized(Blob(<<"src", "build.ts">>), 10),
      Sized(Blob(<<"lock">>), 0),
      Dir(<<"node_modules">>),
      Sized(Blob(<<"node_modules", "x.js">>), 10),
      Sized(Blob(<<"pkg", "dist", "x.js">>), 10),
      Sized(Blob(<<"assets", "logo.PNG">>), 10),
      Sized(Blob(<<"app.min.js">>), 10),
      Sized(Blob(<<"yarn.lock">>), 10) }

RemoteTrees == UNION { [1..n -> RemoteEntries] : n \in 0..MaxFetchedEntries }

InitFetchTree ==
    /\ IdleUi
    /\ IdleScan /\ IdleTree
    /\ repoTree = <<>> /\ provider = "gemini" /\ pc = "tree-start"
    /\ responseText = <<>>
    /\ relevantFilePaths = <<>> /\ fetchRequests = <<>> /\ rawContent = <<>>
    /\ fileContents = <<>> /\ settleOrder = <<>> /\ modelCalls = <<>>
    /\ backend = <<>> /\ outcome = "none"
    /\ baseUrl = DEFAULT_BASE_URL /\ error = <<>>
    /\ appState = "INPUT_GOALS" /\ selectedRepo = REPO /\ plan = NULL
    /\ isAnalyzing = FALSE /\ loadingStage = <<>> /\ alerts = <<>>
    /\ githubRequests = <<>> /\ githubResponses = <<>>
    /\ fetchedTree \in RemoteTrees
    /\ researchNotes = <<>> /\ currentPlan = NULL

\* getRepoTree(fullName, branch) up to its first await: the ref request
GetRepoTreeCall ==
    /\ pc = "tree-start"
    /\ githubRequests' = Append(githubRequests, refRequest(selectedRepo))
    /\ pc' = "branch-await"
    /\ UNCHANGED <<baseUrl, error, repoTree, provider, responseText, relevantFilePaths,
                   fetchRequests, rawContent, fileContents, settleOrder, modelCalls,
                   backend, outcome>>
    /\ UNCHANGED <<appState, selectedRepo, plan, isAnalyzing, loadingStage, alerts,
                   fetchedTree, researchNotes, currentPlan>>
    /\ UNCHANGED <<scanVars, treeVars>>
    /\ UNCHANGED <<uiVars, githubResponses>>

\* the ref request ends: the tree request is sent, or getRepoTree throws
BranchSettle ==
    /\ pc = "branch-await"
    /\ \E result \in BranchResults :
          /\ githubResponses' = Append(githubResponses, result)
          /\ IF Succeeded(result)
             THEN /\ githubRequests' = Append(githubRequests, treeRequest(selectedRepo))
                  /\ pc' = "tree-await"
                  /\ UNCHANGED <<error, outcome>>
             ELSE /\ error' = branchError(result)
                  /\ outcome' = "threw"
                  /\ pc' = "tree-failed"
                  /\ UNCHANGED githubRequests
    /\ UNCHANGED <<baseUrl, repoTree, provider, responseText, relevantFilePaths,
                   fetchRequests, rawContent, fileContents, settleOrder, modelCalls,
                   backend>>
    /\ UNCHANGED <<appState, selectedRepo, plan, isAnalyzing, loadingStage, alerts,
                   fetchedTree, researchNotes, currentPlan>>
    /\ UNCHANGED <<scanVars, treeVars>>
    /\ UNCHANGED uiVars

\* the tree request ends: the filtered tree is returned, or getRepoTree throws
TreeSettle ==
    /\ pc = "tree-await"
    /\ \E result \in TreeResults :
          /\ githubResponses' = Append(githubResponses, result)
          /\ IF Succeeded(result)
             THEN /\ repoTree' = filteredTree(fetchedTree)
                  /\ pc' = "tree-done"
                  /\ UNCHANGED <<error, outcome>>
             ELSE /\ error' = treeError(result)
                  /\ outcome' = "threw"
                  /\ pc' = "tree-failed"
                  /\ UNCHANGED repoTree
    /\ UNCHANGED <<baseUrl, provider, responseText, relevantFilePaths,
                   fetchRequests, rawContent, fileContents, settleOrder, modelCalls,
                   backend>>
    /\ UNCHANGED appVars
    /\ UNCHANGED <<scanVars, treeVars>>
    /\ UNCHANGED uiVars

NextFetchTree == GetRepoTreeCall \/ BranchSettle \/ TreeSettle

SpecFetchTree == InitFetchTree /\ [][NextFetchTree]_vars

----------------------------------------------------------------------------
(* gemini.ts: performDeepResearch; App.tsx: handleAnalyze                  *)

LOCAL_RESEARCH_NOTE ==
    "NOTE: Deep Internet Research is disabled in Local LLM mode. Using model's internal knowledge base only."
RESEARCH_EMPTY == "Research completed but no summary generated."
RESEARCH_UNAVAILABLE == "Internet research unavailable. Proceeding with internal knowledge."

\* performDeepResearch without the branch on the provider
performDeepResearch_HostedOnly(prov, callOk, findings) ==
    IF ~callOk THEN RESEARCH_UNAVAILABLE
    ELSE IF findings = "" THEN RESEARCH_EMPTY ELSE findings

\* what performDeepResearch returns: the fixed note in local mode, else the
\* text of the research call, or a fixed text when the call fails
performDeepResearch(prov, callOk, findings) ==
    IF prov = "local" THEN LOCAL_RESEARCH_NOTE
    ELSE IF ~callOk THEN RESEARCH_UNAVAILABLE
    ELSE IF findings = "" THEN RESEARCH_EMPTY ELSE findings

\* the research call, ahead of stages 1 and 2
researchCall == [stage |-> 0, tools |-> <<"googleSearch">>]

\* what the hosted research call can answer
ResearchFindings == {"notes-1", ""}

SCANNING    == <<"Scanning Repository Structure...">>
RESEARCHING == <<"Performing Research & Safety Analysis...">>
PLANNING    == <<"Analyzing Codebase & Planning...">>

alertText(message) == <<"Failed to generate plan: ">> \o message

----------------------------------------------------------------------------
(* One analysis run started from the goals form: handleAnalyze             *)

OTHER_BASE_URL == "http://127.0.0.1:1234/v1"

\* the trees the repository can hold
AnalyzeTrees ==
    { <<>>,
      <<Sized(Blob(<<"README.md">>), 1), Sized(Blob(<<"src", "app.ts">>), 10)>>,
      <<Dir(<<"node_modules">>), Sized(Blob(<<"node_modules", "x.js">>), 10),
        Sized(Blob(<<"README.md">>), 1)>> }

InitAnalyze ==
    /\ IdleUi
    /\ IdleScan /\ IdleTree
    /\ repoTree = <<>> /\ provider \in Providers /\ pc = "input"
    /\ responseText = <<>>
    /\ relevantFilePaths = <<>> /\ fetchRequests = <<>> /\ rawContent = <<>>
    /\ fileContents = <<>> /\ settleOrder = <<>> /\ modelCalls = <<>>
    /\ backend = <<>> /\ outcome = "none"
    /\ baseUrl \in IF provider = "local" THEN {DEFAULT_BASE_URL, OTHER_BASE_URL, ""}
                   ELSE {DEFAULT_BASE_URL}
    /\ error = <<>>
    /\ appState = "INPUT_GOALS" /\ selectedRepo = REPO /\ plan = NULL
    /\ isAnalyzing = FALSE /\ loadingStage = <<>> /\ alerts = <<>>
    /\ githubRequests = <<>> /\ githubResponses = <<>>
    /\ fetchedTree \in AnalyzeTrees
    /\ researchNotes = UNDEFINED /\ currentPlan = NULL

\* handleAnalyze up to its first await: the form is shown only in
\* INPUT_GOALS with a repository selected and no analysis running
AnalyzeStart ==
    /\ pc = "input"
    /\ appState = "INPUT_GOALS" /\ selectedRepo # NULL /\ ~isAnalyzing
    /\ isAnalyzing' = TRUE
    /\ loadingStage' = SCANNING
    /\ githubRequests' = Append(githubRequests, refRequest(selectedRepo))
    /\ pc' = "branch-await"
    /\ UNCHANGED <<baseUrl, error, repoTree, provider, responseText, relevantFilePaths,
                   fetchRequests, rawContent, fileContents, settleOrder, modelCalls,
                   backend, outcome>>
    /\ UNCHANGED <<appState, selectedRepo, plan, alerts, fetchedTree, researchNotes,
                   currentPlan>>
    /\ UNCHANGED <<scanVars, treeVars>>
    /\ UNCHANGED <<uiVars, githubResponses>>

\* getRepoTree has returned: performDeepResearch runs up to its await, or,
\* in local mode, to its return
ResearchStart ==
    /\ pc = "tree-done" /\ isAnalyzing
    /\ loadingStage' = RESEARCHING
    /\ IF provider = "local"
       THEN /\ researchNotes' = performDeepResearch(provider, TRUE, "")
            /\ pc' = "research-done"
            /\ UNCHANGED modelCalls
       ELSE /\ modelCalls' = Append(modelCalls, researchCall)
            /\ pc' = "research-await"
            /\ UNCHANGED researchNotes
    /\ UNCHANGED <<baseUrl, error, repoTree, provider, responseText, relevantFilePaths,
                   fetchRequests, rawContent, fileContents, settleOrder, backend, outcome>>
    /\ UNCHANGED <<appState, selectedRepo, plan, isAnalyzing, alerts, githubRequests,
                   fetchedTree, currentPlan>>
    /\ UNCHANGED <<scanVars, treeVars>>
    /\ UNCHANGED <<uiVars, githubResponses>>

\* the hosted research call ends, with a text or with an error that
\* performDeepResearch catches
ResearchSettle ==
    /\ pc = "research-await"
    /\ \/ \E findings \in ResearchFindings :
             /\ researchNotes' = performDeepResearch(provider, TRUE, findings)
             /\ backend' = Append(backend, "ok")
       \/ /\ researchNotes' = performDeepResearch(provider, FALSE, "")
          /\ backend' = Append(backend, "error")
    /\ pc' = "research-done"
    /\ UNCHANGED <<baseUrl, error, repoTree, provider, responseText, relevantFilePaths,
                   fetchRequests, rawContent, fileContents, settleOrder, modelCalls, outcome>>
    /\ UNCHANGED <<appState, selectedRepo, plan, isAnalyzing, loadingStage, alerts,
                   githubRequests, fetchedTree, currentPlan>>
    /\ UNCHANGED <<scanVars, treeVars>>
    /\ UNCHANGED <<uiVars, githubResponses>>

\* performDeepResearch has returned: handleAnalyze goes on to
\* generatePlanEnhanced
PlanStart ==
    /\ pc = "research-done"
    /\ loadingStage' = PLANNING
    /\ pc' = "start"
    /\ UNCHANGED <<baseUrl, error, repoTree, provider, responseText, relevantFilePaths,
                   fetchRequests, rawContent, fileContents, settleOrder, modelCalls,
                   backend, outcome>>
    /\ UNCHANGED <<appState, selectedRepo, plan, isAnalyzing, alerts, githubRequests,
                   fetchedTree, researchNotes, currentPlan>>
    /\ UNCHANGED <<scanVars, treeVars>>
    /\ UNCHANGED <<uiVars, githubResponses>>

\* generatePlanEnhanced has returned: setPlan, setState(VIEW_PLAN), finally
AnalyzeDone ==
    /\ pc = "done" /\ isAnalyzing
    /\ plan' = generatedPlan(responseText, researchNotes)
    /\ appState' = "VIEW_PLAN"
    /\ isAnalyzing' = FALSE
    /\ loadingStage' = <<>>
    /\ pc' = "plan-ready"
    /\ UNCHANGED <<baseUrl, error, repoTree, provider, responseText, relevantFilePaths,
                   fetchRequests, rawContent, fileContents, settleOrder, modelCalls,
                   backend, outcome>>
    /\ UNCHANGED <<selectedRepo, alerts, githubRequests, fetchedTree, researchNotes,
                   currentPlan>>
    /\ UNCHANGED <<scanVars, treeVars>>
    /\ UNCHANGED <<uiVars, githubResponses>>

\* the catch of handleAnalyze with no finally block after it
AnalyzeFailed_NoFinally ==
    /\ pc \in {"tree-failed", "failed"} /\ isAnalyzing
    /\ alerts' = Append(alerts, alertText(error))
    /\ UNCHANGED <<isAnalyzing, loadingStage>>
    /\ pc' = "error-shown"
    /\ UNCHANGED <<baseUrl, error, repoTree, provider, responseText, relevantFilePaths,
                   fetchRequests, rawContent, fileContents, settleOrder, modelCalls,
                   backend, outcome>>
    /\ UNCHANGED <<appState, selectedRepo, plan, githubRequests, fetchedTree,
                   researchNotes, currentPlan>>
    /\ UNCHANGED <<scanVars, treeVars>>
    /\ UNCHANGED <<uiVars, githubResponses>>

\* getRepoTree or generatePlanEnhanced has thrown: catch, then finally
AnalyzeFailed ==
    /\ pc \in {"tree-failed", "failed"} /\ isAnalyzing
    /\ alerts' = Append(alerts, alertText(error))
    /\ isAnalyzing' = FALSE
    /\ loadingStage' = <<>>
    /\ pc' = "error-shown"
    /\ UNCHANGED <<baseUrl, error, repoTree, provider, responseText, relevantFilePaths,
                   fetchRequests, rawContent, fileContents, settleOrder, modelCalls,
                   backend, outcome>>
    /\ UNCHANGED <<appState, selectedRepo, plan, githubRequests, fetchedTree,
                   researchNotes, currentPlan>>
    /\ UNCHANGED <<scanVars, treeVars>>
    /\ UNCHANGED <<uiVars, githubResponses>>

NextAnalyze ==
    \/ AnalyzeStart \/ BranchSettle \/ TreeSettle
    \/ ResearchStart \/ ResearchSettle \/ PlanStart
    \/ Stage1Call \/ Stage1Return \/ Stage1Throw
    \/ \E i \in 1..MaxRunFiles : FetchSettle(i)
    \/ Stage2Call \/ Stage2Return \/ Stage2Throw
    \/ AnalyzeDone \/ AnalyzeFailed

SpecAnalyze == InitAnalyze /\ [][NextAnalyze]_vars

-----------------------------------------------------------------------------
(* RepoSearch: the search box, its debounce effect and its search effect   *)
(* A query is the sequence of its characters.  A run of the search effect  *)
(* that reaches an await is a record of `runs`:                            *)
(*   query   debouncedQuery of the render the effect ran in                *)
(*   active  the `active` flag of its closure                              *)
(*   at      "direct" (awaiting getRepoDetails) | "search" (awaiting       *)
(*           searchRepos) | "done"                                         *)
(*   ended   "pending" | "ok" | "error";  data: the repositories it got    *)
(*   order   its place in the order in which the runs ended (0: not yet)   *)

MIN_QUERY_LENGTH == 3

\* the queries the user types: empty, too short, a plain one, an owner/repo
Queries ==
    { <<>>, <<"a", "b">>, <<"a", "b", "c">>, <<"o", "/", "r">> }

MaxSearchRuns == 3

SlugChars == {"a", "b", "c", "o", "r"}

\* extractRepoSlug: the owner/repo of `^([\w\-.]+)\/([\w\-.]+)$`, or <<>>
\* for null (no query of the model holds a github.com URL)
extractRepoSlug(q) ==
    IF \E i \in 2..(Len(q) - 1) :
          /\ q[i] = "/"
          /\ \A j \in (1..Len(q)) \ {i} : q[j] \in SlugChars
    THEN q ELSE <<>>

\* a repository of a response, marked with the run that received it
RepoOf(k) == [id |-> k]

\* what getRepoDetails ends with
DirectResults(k) == {[ok |-> TRUE, data |-> <<RepoOf(k)>>], [ok |-> FALSE, data |-> <<>>]}

SEARCH_RATE_LIMIT_ERROR == "GitHub API rate limit exceeded. Please try again in a few minutes."
SEARCH_FAILED_ERROR == "GitHub Search Failed: [statusText]"

\* what searchRepos ends with: `data.items || []`, or one of its Errors
SearchResults(k) ==
    { [ok |-> TRUE, data |-> <<RepoOf(k)>>, message |-> ""],
      [ok |-> TRUE, data |-> <<>>, message |-> ""],
      [ok |-> FALSE, data |-> <<>>, message |-> SEARCH_RATE_LIMIT_ERROR],
      [ok |-> FALSE, data |-> <<>>, message |-> SEARCH_FAILED_ERROR] }

Run(q) ==
    [query |-> q, active |-> TRUE,
     at |-> IF extractRepoSlug(q) # <<>> THEN "direct" ELSE "search",
     ended |-> "pending", data |-> <<>>, order |-> 0]

\* the cleanup of the search effect: `active = false`
Cleanup(rs) == [k \in 1..Len(rs) |-> [rs[k] EXCEPT !.active = FALSE]]

Ended(rs) == Cardinality({k \in 1..Len(rs) : rs[k].at = "done"})

\* setDebouncedQuery(q): a render with a new debouncedQuery runs the cleanup
\* of the search effect and then the effect, i.e. fetchRepos() up to its
\* first await or to its return; setting the value it has renders nothing.
setDebouncedQuery(q) ==
    IF q = debouncedQuery
    THEN UNCHANGED <<debouncedQuery, runs, results, searchError, loading>>
    ELSE /\ debouncedQuery' = q
         /\ IF Len(q) < MIN_QUERY_LENGTH
            THEN /\ runs' = Cleanup(runs)
                 /\ results' = <<>>
                 /\ searchError' = NULL
                 /\ UNCHANGED loading
            ELSE /\ runs' = Append(Cleanup(runs), Run(q))
                 /\ loading' = TRUE
                 /\ searchError' = NULL
                 /\ UNCHANGED results

\* the component is mounted: both effects have run once, on the empty query
InitSearch ==
    /\ IdleScan /\ IdleTree /\ IdleRun /\ IdleApp /\ IdleChat
    /\ query = <<>> /\ debouncedQuery = <<>> /\ timer = TRUE /\ runs = <<>>
    /\ results = <<>> /\ searchError = NULL /\ loading = FALSE

\* onChange of the input: setQuery; the debounce effect clears its timeout
\* and sets a new one
SetQuery(q) ==
    /\ q # query
    /\ Len(q) >= MIN_QUERY_LENGTH => Len(runs) < MaxSearchRuns
    /\ query' = q
    /\ timer' = TRUE
    /\ UNCHANGED <<debouncedQuery, runs, results, searchError, loading>>
    /\ UNCHANGED <<chatHistory, input, loadingChat, asksInFlight, githubResponses>>
    /\ UNCHANGED <<scanVars, treeVars, runVars, appVars>>

\* the timeout of the debounce effect fires
DebounceTimeout ==
    /\ timer
    /\ timer' = FALSE
    /\ setDebouncedQuery(query)
    /\ UNCHANGED query
    /\ UNCHANGED <<chatHistory, input, loadingChat, asksInFlight, githubResponses>>
    /\ UNCHANGED <<scanVars, treeVars, runVars, appVars>>

\* the form is submitted
handleManualSearch ==
    /\ query # debouncedQuery
    /\ setDebouncedQuery(query)
    /\ UNCHANGED <<query, timer>>
    /\ UNCHANGED <<chatHistory, input, loadingChat, asksInFlight, githubResponses>>
    /\ UNCHANGED <<scanVars, treeVars, runVars, appVars>>

\* getRepoDetails of run k ends: results and loading are set and fetchRepos
\* returns when it succeeded and the run is active; otherwise searchRepos
\* is called
DirectSettle(k) ==
    /\ k \in 1..Len(runs)
    /\ runs[k].at = "direct"
    /\ \E res \in DirectResults(k) :
          IF res.ok /\ runs[k].active
          THEN /\ results' = res.data
               /\ loading' = FALSE
               /\ runs' = [runs EXCEPT ![k].at = "done", ![k].ended = "ok",
                                       ![k].data = res.data,
                                       ![k].order = Ended(runs) + 1]
               /\ UNCHANGED searchError
          ELSE /\ runs' = [runs EXCEPT ![k].at = "search"]
               /\ UNCHANGED <<results, searchError, loading>>
    /\ UNCHANGED <<query, debouncedQuery, timer>>
    /\ UNCHANGED <<chatHistory, input, loadingChat, asksInFlight, githubResponses>>
    /\ UNCHANGED <<scanVars, treeVars, runVars, appVars>>

\* searchRepos of run k ends, every setter without its `if (active)`
SearchSettle_Unguarded(k) ==
    /\ k \in 1..Len(runs)
    /\ runs[k].at = "search"
    /\ \E res \in SearchResults(k) :
          /\ runs' = [runs EXCEPT ![k].at = "done",
                                  ![k].ended = IF res.ok THEN "ok" ELSE "error",
                                  ![k].data = res.data,
                                  ![k].order = Ended(runs) + 1]
          /\ results' = res.data
          /\ searchError' = IF res.ok THEN searchError ELSE [message |-> res.message]
          /\ loading' = FALSE
    /\ UNCHANGED <<query, debouncedQuery, timer>>
    /\ UNCHANGED <<chatHistory, input, loadingChat, asksInFlight, githubResponses>>
    /\ UNCHANGED <<scanVars, treeVars, runVars, appVars>>

\* searchRepos of run k ends: try, catch and finally of fetchRepos
SearchSettle(k) ==
    /\ k \in 1..Len(runs)
    /\ runs[k].at = "search"
    /\ \E res \in SearchResults(k) :
          /\ runs' = [runs EXCEPT ![k].at = "done",
                                  ![k].ended = IF res.ok THEN "ok" ELSE "error",
                                  ![k].data = res.data,
                                  ![k].order = Ended(runs) + 1]
          /\ IF runs[k].active
             THEN /\ results' = res.data
                  /\ searchError' = IF res.ok THEN searchError
                                    ELSE [message |-> res.message]
                  /\ loading' = FALSE
             ELSE UNCHANGED <<results, searchError, loading>>
    /\ UNCHANGED <<query, debouncedQuery, timer>>
    /\ UNCHANGED <<chatHistory, input, loadingChat, asksInFlight, githubResponses>>
    /\ UNCHANGED <<scanVars, treeVars, runVars, appVars>>

NextSearch ==
    \/ \E q \in Queries : SetQuery(q)
    \/ DebounceTimeout
    \/ handleManualSearch
    \/ \E k \in 1..MaxSearchRuns : DirectSettle(k)
    \/ \E k \in 1..MaxSearchRuns : SearchSettle(k)

SpecSearch == InitSearch /\ [][NextSearch]_vars

\* every timeout fires and every request is answered
SpecSearchLive ==
    /\ SpecSearch
    /\ WF_vars(DebounceTimeout)
    /\ \A k \in 1..MaxSearchRuns : WF_vars(DirectSettle(k)) /\ WF_vars(SearchSettle(k))

-----------------------------------------------------------------------------
(* StepCard: the chat of one step (handleSendMessage, askStepQuestion)     *)
(* A text is a sequence of strings; <<>> is the empty string.              *)

ChatMessage(role, text) == [role |-> role, content |-> text]

\* what the user may type: nothing, a blank, two questions
ChatInputs == { <<>>, <<" ">>, <<"How?">>, <<"Why?">> }

\* input.trim()
trim(text) == IF text = <<" ">> THEN <<>> ELSE text

MaxQuestions == 2

NO_RESPONSE == <<"No response.">>
GEMINI_ERROR == <<"Error calling Gemini.">>
ANSWER == <<"Do this.">>

\* how the hosted call can end: a text, an empty text, a rejection
HostedResults == {"content", "no-content", "sdk-error"}

\* askStepQuestion for one outcome of its model call.  Local mode returns
\* what callLocalLLM returns and throws what it throws; hosted mode returns
\* `response.text || "No response."`, and a fixed text from its catch.
askStepQuestion(prov, url, result) ==
    IF prov = "local"
    THEN callLocalLLM(url, result, ANSWER)
    ELSE [threw |-> FALSE, message |-> <<>>,
          text |-> CASE result = "content"    -> ANSWER
                     [] result = "no-content" -> NO_RESPONSE
                     [] OTHER                 -> GEMINI_ERROR]

AskResults(prov) == IF prov = "local" THEN LocalResults ELSE HostedResults

InitChat ==
    /\ IdleScan /\ IdleTree /\ IdleApp /\ IdleSearch
    /\ repoTree = <<>> /\ pc = "off" /\ responseText = <<>>
    /\ relevantFilePaths = <<>> /\ fetchRequests = <<>> /\ rawContent = <<>>
    /\ fileContents = <<>> /\ settleOrder = <<>> /\ modelCalls = <<>>
    /\ backend = <<>> /\ outcome = "none" /\ error = <<>>
    /\ provider \in Providers
    /\ baseUrl \in IF provider = "local" THEN {DEFAULT_BASE_URL, ""} ELSE {DEFAULT_BASE_URL}
    /\ chatHistory = <<>> /\ input = <<>> /\ loadingChat = FALSE /\ asksInFlight = 0

\* onChange of the chat input
SetInput(text) ==
    /\ text # input
    /\ input' = text
    /\ UNCHANGED <<chatHistory, loadingChat, asksInFlight>>
    /\ UNCHANGED <<query, debouncedQuery, timer, runs, results, searchError, loading,
                   githubResponses>>
    /\ UNCHANGED <<scanVars, treeVars, runVars, appVars>>

\* handleSendMessage up to its await (`if (!input.trim() || loadingChat)
\* return` is the guard)
handleSendMessage ==
    /\ trim(input) # <<>> /\ ~loadingChat
    /\ Len(chatHistory) < 2 * MaxQuestions
    /\ chatHistory' = Append(chatHistory, ChatMessage("user", input))
    /\ input' = <<>>
    /\ loadingChat' = TRUE
    /\ asksInFlight' = asksInFlight + 1
    /\ UNCHANGED <<query, debouncedQuery, timer, runs, results, searchError, loading,
                   githubResponses>>
    /\ UNCHANGED <<scanVars, treeVars, runVars, appVars>>

\* askStepQuestion settles: handleSendMessage goes on after its await, or,
\* when the promise rejected, ends there (nothing catches the rejection)
AskSettle ==
    /\ asksInFlight > 0
    /\ asksInFlight' = asksInFlight - 1
    /\ \E result \in AskResults(provider) :
          LET res == askStepQuestion(provider, baseUrl, result)
          IN  IF res.threw
              THEN UNCHANGED <<chatHistory, loadingChat>>
              ELSE /\ chatHistory' = Append(chatHistory, ChatMessage("model", res.text))
                   /\ loadingChat' = FALSE
    /\ UNCHANGED input
    /\ UNCHANGED <<query, debouncedQuery, timer, runs, results, searchError, loading,
                   githubResponses>>
    /\ UNCHANGED <<scanVars, treeVars, runVars, appVars>>

NextChat ==
    \/ \E text \in ChatInputs : SetInput(text)
    \/ handleSendMessage
    \/ AskSettle

SpecChat == InitChat /\ [][NextChat]_vars

\* every call of askStepQuestion settles
SpecChatLive == SpecChat /\ WF_vars(AskSettle)

-----------------------------------------------------------------------------
(* App.tsx: the handlers of the App and the screens they are wired to      *)
(* pc is where handleAnalyze stands: "input" (not running), or awaiting    *)
(* "tree" (getRepoTree), "research" (performDeepResearch), "plan"          *)
(* (generatePlanEnhanced).  currentPlan is the plan a refinement started   *)
(* from PlanDisplay is working on, NULL when none is in flight.            *)

OTHER_REPO == [full_name |-> "other/repo", default_branch |-> "master"]
Repos == {REPO, OTHER_REPO}

MaxAlerts == 2

\* the plans a refinement hands to onUpdatePlan
RefinedPlans == {[p EXCEPT !.summary = "summary-2"] : p \in SynthesizedPlans}

\* the errors handleAnalyze can catch
AnalyzeErrors == {RATE_LIMIT_ERROR, INVALID_PLAN_ERROR}

\* what the render conditions mount
AnalysisInputShown == appState = "INPUT_GOALS" /\ selectedRepo # NULL /\ ~isAnalyzing
PlanDisplayShown ==
    appState = "VIEW_PLAN" /\ plan # NULL /\ selectedRepo # NULL /\ ~isAnalyzing

\* the App after its mount effect: hasValidConfig() or not
InitApp ==
    /\ IdleScan /\ IdleTree /\ IdleUi
    /\ repoTree = <<>> /\ provider = "gemini" /\ pc = "input" /\ responseText = <<>>
    /\ relevantFilePaths = <<>> /\ fetchRequests = <<>> /\ rawContent = <<>>
    /\ fileContents = <<>> /\ settleOrder = <<>> /\ modelCalls = <<>>
    /\ backend = <<>> /\ outcome = "none"
    /\ baseUrl = DEFAULT_BASE_URL /\ error = <<>>
    /\ appState \in {"SETUP_REQUIRED", "SEARCH_REPO"}
    /\ selectedRepo = NULL /\ plan = NULL
    /\ isAnalyzing = FALSE /\ loadingStage = <<>> /\ alerts = <<>>
    /\ githubRequests = <<>> /\ githubResponses = <<>>
    /\ fetchedTree = <<>> /\ researchNotes = <<>> /\ currentPlan = NULL

AppUnchanged ==
    /\ UNCHANGED <<repoTree, provider, responseText, relevantFilePaths, fetchRequests,
                   rawContent, fileContents, settleOrder, modelCalls, backend, outcome,
                   baseUrl, error>>
    /\ UNCHANGED <<githubRequests, githubResponses, fetchedTree, researchNotes>>
    /\ UNCHANGED <<scanVars, treeVars, uiVars>>

handleKeySetupComplete ==
    /\ appState = "SETUP_REQUIRED"
    /\ appState' = "SEARCH_REPO"
    /\ UNCHANGED <<selectedRepo, plan, isAnalyzing, loadingStage, alerts, currentPlan, pc>>
    /\ AppUnchanged

\* a result of RepoSearch is clicked
handleRepoSelect(repo) ==
    /\ appState = "SEARCH_REPO"
    /\ selectedRepo' = repo
    /\ appState' = "INPUT_GOALS"
    /\ UNCHANGED <<plan, isAnalyzing, loadingStage, alerts, currentPlan, pc>>
    /\ AppUnchanged

\* onBack of AnalysisInput
onBack ==
    /\ AnalysisInputShown
    /\ appState' = "SEARCH_REPO"
    /\ UNCHANGED <<selectedRepo, plan, isAnalyzing, loadingStage, alerts, currentPlan, pc>>
    /\ AppUnchanged

\* handleAnalyze up to its first await
handleAnalyze ==
    /\ AnalysisInputShown
    /\ pc = "input"
    /\ Len(alerts) < MaxAlerts
    /\ isAnalyzing' = TRUE
    /\ loadingStage' = SCANNING
    /\ pc' = "tree"
    /\ UNCHANGED <<appState, selectedRepo, plan, alerts, currentPlan>>
    /\ AppUnchanged

\* getRepoTree or performDeepResearch returns: the next stage begins
handleAnalyzeStage ==
    /\ pc \in {"tree", "research"}
    /\ loadingStage' = IF pc = "tree" THEN RESEARCHING ELSE PLANNING
    /\ pc' = IF pc = "tree" THEN "research" ELSE "plan"
    /\ UNCHANGED <<appState, selectedRepo, plan, isAnalyzing, alerts, currentPlan>>
    /\ AppUnchanged

\* generatePlanEnhanced returns: setPlan, setState, and the finally block
handleAnalyzeReturn ==
    /\ pc = "plan"
    /\ \E p \in SynthesizedPlans : plan' = p
    /\ appState' = "VIEW_PLAN"
    /\ isAnalyzing' = FALSE
    /\ loadingStage' = <<>>
    /\ pc' = "input"
    /\ UNCHANGED <<selectedRepo, alerts, currentPlan>>
    /\ AppUnchanged

\* getRepoTree or generatePlanEnhanced throws: the catch and the finally
handleAnalyzeThrow ==
    /\ pc \in {"tree", "plan"}
    /\ \E e \in AnalyzeErrors : alerts' = Append(alerts, alertText(e))
    /\ isAnalyzing' = FALSE
    /\ loadingStage' = <<>>
    /\ pc' = "input"
    /\ UNCHANGED <<appState, selectedRepo, plan, currentPlan>>
    /\ AppUnchanged

\* PlanDisplay starts a refinement of the plan it shows
RefineStart ==
    /\ PlanDisplayShown
    /\ currentPlan = NULL
    /\ currentPlan' = plan
    /\ UNCHANGED <<appState, selectedRepo, plan, isAnalyzing, loadingStage, alerts, pc>>
    /\ AppUnchanged

\* the refinement ends and calls onUpdatePlan, PlanDisplay still shown or not
handlePlanUpdate(newPlan) ==
    /\ currentPlan # NULL
    /\ plan' = newPlan
    /\ currentPlan' = NULL
    /\ UNCHANGED <<appState, selectedRepo, isAnalyzing, loadingStage, alerts, pc>>
    /\ AppUnchanged

\* a reset that leaves the state where it is
handleReset_KeepState ==
    /\ PlanDisplayShown
    /\ plan' = NULL
    /\ selectedRepo' = NULL
    /\ UNCHANGED <<appState, isAnalyzing, loadingStage, alerts, currentPlan, pc>>
    /\ AppUnchanged

\* onReset of PlanDisplay
handleReset ==
    /\ PlanDisplayShown
    /\ plan' = NULL
    /\ selectedRepo' = NULL
    /\ appState' = "SEARCH_REPO"
    /\ UNCHANGED <<isAnalyzing, loadingStage, alerts, currentPlan, pc>>
    /\ AppUnchanged

NextApp ==
    \/ handleKeySetupComplete
    \/ \E repo \in Repos : handleRepoSelect(repo)
    \/ onBack
    \/ handleAnalyze \/ handleAnalyzeStage \/ handleAnalyzeReturn \/ handleAnalyzeThrow
    \/ RefineStart
    \/ \E p \in RefinedPlans : handlePlanUpdate(p)
    \/ handleReset

SpecApp == InitApp /\ [][NextApp]_vars

----------------------------------------------------------------------------
(* Properties of the scanner                                               *)

\* every match of every pattern in text, as [k, index, text]
AllMatches(text) ==
    UNION {{[k |-> k, index |-> m.index, text |-> m.text] :
               m \in {matchAll(SECRET_PATTERNS[k], text)[j] :
                         j \in 1..Len(matchAll(SECRET_PATTERNS[k], text))}} :
           k \in 1..Len(SECRET_PATTERNS)}

MatchedStrings(text) == {m.text : m \in AllMatches(text)}

\* the distinct spans [first, last] of text that some pattern matched
MatchSpans(text) == {<<m.index + 1, m.index + Len(m.text)>> : m \in AllMatches(text)}

\* C3: after redactSecrets, no string that a pattern matched in the input
\* occurs as a substring of redactedContent (repeated secrets and
\* overlapping matches included).
C3_NoMatchedStringInOutput ==
    scanPc = "done" =>
        \A s \in MatchedStrings(content) : ~Contains(scanOut.content, s)

C5_NoSecretInDetections ==
    scanPc = "done" =>
        /\ \A i \in 1..Len(scanDetected) :
              /\ Len(scanDetected[i].context) <= CONTEXT_LENGTH
              /\ \A s \in MatchedStrings(content) : ~Contains(scanDetected[i].context, s)
        /\ \A i \in 1..Len(consoleLog) :
              \A s \in MatchedStrings(content) : ~Contains(consoleLog[i].context, s)

----------------------------------------------------------------------------
(* Properties of the digest                                                *)

\* the lines array that treeToString returned (the string less its header)
DigestLines == IF Len(inputFiles) = 0 THEN <<>> ELSE Tail(treeString)

\* C6 (as claimed): the string returned by generateTreeString has at most
\* 501 lines.
C6_AtMost501Lines ==
    treePc = "done" => Len(treeString) <= MAX_TREE_LINES + 1

\* C6 (amended): treeToString returns at most 501 lines (at most 500 node
\* lines and at most one truncation line, the last one); generateTreeString
\* puts one header line before them, so its string has at most 502 lines.
C6_DigestBounded ==
    treePc = "done" =>
        /\ Len(DigestLines) <= MAX_TREE_LINES + 1
        /\ Len(treeString) <= MAX_TREE_LINES + 2
        /\ \A i \in 1..Len(DigestLines) :
              DigestLines[i] = TRUNCATION_LINE => i = MAX_TREE_LINES + 1
        /\ Cardinality({i \in 1..Len(DigestLines) : DigestLines[i] # TRUNCATION_LINE})
              <= MAX_TREE_LINES

\* a tree of more than 500 nodes, rendered: header, 500 node lines, truncation
C6_Witness ==
    /\ treePc = "done"
    /\ Cardinality(DOMAIN buildTree(inputFiles)) > MAX_TREE_LINES
    /\ Len(treeString) = MAX_TREE_LINES + 2
    /\ treeString[Len(treeString)] = TRUNCATION_LINE

----------------------------------------------------------------------------
(* Properties of identifyRelevantFiles                                     *)

ParsedResponse == JSONparse(stripFences(responseText))

PathInRepoTree(path) == \E j \in 1..Len(repoTree) : repoTree[j].path = path

\* C1: for every tree and every response text, every path returned by
\* identifyRelevantFiles is the path of an entry of the tree, and at most 10
\* paths are returned.
C1_ReturnsOnlyTreePaths ==
    outcome = "returned" =>
        /\ Len(relevantFilePaths) <= 10
        /\ \A i \in 1..Len(relevantFilePaths) : PathInRepoTree(relevantFilePaths[i])

\* the response names 11 paths of the tree and a path of no tree is cut too
C1_Witness ==
    /\ pc = "identified" /\ outcome = "returned"
    /\ ParsedResponse.kind = "array"
    /\ Len(ParsedResponse.items) > 10
    /\ \A i \in 1..Len(ParsedResponse.items) : PathInRepoTree(ParsedResponse.items[i].v)
    /\ Len(relevantFilePaths) = 10

\* C7: with an empty tree identifyRelevantFiles returns the empty list
\* without a call to the model backend.
C7_EmptyTreeSkipsModel ==
    repoTree = <<>> => (modelCalls = <<>> /\ outcome # "threw")

\* the entries the fallback looks at, by index
FallbackEligible ==
    {j \in 1..Len(repoTree) :
        \/ repoTree[j].path = <<"package.json">>
        \/ repoTree[j].path = <<"README.md">>
        \/ (Len(repoTree[j].path) >= 2 /\ repoTree[j].path[1] = "src")}

UnderSrc(path) == Len(path) >= 2 /\ path[1] = "src"

Returned(path) == \E i \in 1..Len(relevantFilePaths) : relevantFilePaths[i] = path

\* C9 (as claimed): on an unparseable response the selection holds the
\* manifest and the readme whenever they are in the tree, plus up to 5
\* entries under src/.
C9_ManifestReadmePlusFiveSource ==
    (outcome = "returned" /\ ParsedResponse.kind # "array") =>
        /\ PathInRepoTree(<<"package.json">>) => Returned(<<"package.json">>)
        /\ PathInRepoTree(<<"README.md">>) => Returned(<<"README.md">>)
        /\ Cardinality({i \in 1..Len(relevantFilePaths) : UnderSrc(relevantFilePaths[i])})
              = Min(5, Cardinality({j \in 1..Len(repoTree) : UnderSrc(repoTree[j].path)}))

\* C9 (amended): on an unparseable response the selection is at most 5 paths
\* in all: the first five entries, in the order of the tree, among
\* package.json, README.md and the entries under src/.  It depends on the
\* tree alone.
C9_FirstFiveFallbackEntries ==
    (outcome = "returned" /\ ParsedResponse.kind # "array") =>
        /\ Len(relevantFilePaths) = Min(5, Cardinality(FallbackEligible))
        /\ \A i \in 1..Len(relevantFilePaths) :
              \E j \in FallbackEligible :
                  /\ repoTree[j].path = relevantFilePaths[i]
                  /\ Cardinality({k \in FallbackEligible : k < j}) = i - 1

\* six eligible entries, an unparseable response: the sixth is left out
C9_Witness ==
    /\ outcome = "returned" /\ ParsedResponse.kind = "SyntaxError"
    /\ Cardinality(FallbackEligible) = 6
    /\ Len(relevantFilePaths) = 5
    /\ \E j \in FallbackEligible : ~Returned(repoTree[j].path)

\* C10 (as claimed): identifyRelevantFiles always completes with a list,
\* also when the model call itself fails.
C10_NeverFails ==
    pc = "identified" => outcome = "returned"

\* C10 (amended): identifyRelevantFiles completes with a list of paths for
\* every response text the backend returns, parseable or not; it fails
\* exactly when the model call itself fails.
C10_FailsOnlyWhenCallFails ==
    pc = "identified" =>
        /\ backend = <<"ok">> => outcome = "returned"
        /\ backend = <<"error">> => outcome = "threw"
        /\ backend \in {<<"ok">>, <<"error">>}

\* the backend answered text that is no JSON array, and a list came back
C10_Witness ==
    /\ pc = "identified" /\ backend = <<"ok">>
    /\ ParsedResponse.kind \in {"SyntaxError", "object", "string", "number"}
    /\ outcome = "returned"

----------------------------------------------------------------------------
(* Properties of the analysis run                                          *)

\* C2: each file content in the stage-2 prompt is the scanner's output for
\* the fetched text (cut to the per-file budget), or the fetch error
\* placeholder; the stage-1 prompt holds no file content.
C2_PromptHoldsScannedContent ==
    \A c \in 1..Len(modelCalls) :
        /\ modelCalls[c].stage = 1 => modelCalls[c].analyzedFiles = <<>>
        /\ modelCalls[c].stage = 2 =>
              /\ Len(modelCalls[c].analyzedFiles) = Len(relevantFilePaths)
              /\ \A i \in 1..Len(relevantFilePaths) :
                    modelCalls[c].analyzedFiles[i].content =
                        IF rawContent[i].ok
                        THEN Substring0(
                                redactSecrets(rawContent[i].text, relevantFilePaths[i]).redactedContent,
                                5000)
                        ELSE FETCH_ERROR

\* a fetched text with a secret in it went into the prompt, redacted
C2_Witness ==
    \E c \in 1..Len(modelCalls) :
        /\ modelCalls[c].stage = 2
        /\ \E i \in 1..Len(relevantFilePaths) :
              /\ rawContent[i].ok
              /\ MatchedStrings(rawContent[i].text) # {}
              /\ modelCalls[c].analyzedFiles[i].content # rawContent[i].text

\* fetchAndSanitizeFiles has returned (the stage-2 call follows it at once)
FetchReturned == Len(modelCalls) >= 2

\* C8: fetchAndSanitizeFiles never fails; it returns one result per path, in
\* the order of the paths whatever the order of completion; a failed fetch
\* gives the error placeholder as that file's content, the other files keep
\* their own scanned content.
C8_OneResultPerPathInOrder ==
    /\ pc = "fetching" => outcome = "none"
    /\ pc = "failed" =>
          \/ backend[Len(backend)] = "error"
          \/ (Len(backend) = 2 /\ ~planParses(responseText))
    /\ FetchReturned =>
          /\ Len(fileContents) = Len(relevantFilePaths)
          /\ \A i \in 1..Len(relevantFilePaths) :
                /\ fileContents[i].path = relevantFilePaths[i]
                /\ ~rawContent[i].ok =>
                      (fileContents[i].content = FETCH_ERROR /\ fileContents[i].warnings = <<>>)
                /\ rawContent[i].ok =>
                      fileContents[i].content =
                          redactSecrets(rawContent[i].text, relevantFilePaths[i]).redactedContent

\* two different paths, the second fetch done first and the first failed
C8_Witness ==
    /\ FetchReturned
    /\ settleOrder = <<2, 1>>
    /\ relevantFilePaths[1] # relevantFilePaths[2]
    /\ ~rawContent[1].ok /\ rawContent[2].ok
    /\ fileContents[1].content = FETCH_ERROR
    /\ fileContents[2].content # FETCH_ERROR

----------------------------------------------------------------------------
(* Properties of refactorPlan                                              *)

\* refactorPlan has just returned a plan for currentPlan
Refined == pc = "plan-ready" /\ outcome = "returned" /\ currentPlan # NULL

\* the researchNotes member of the response, UNDEFINED when it has none
AnsweredNotes ==
    LET parsed == JSONparse(stripFences(responseText))
    IN  IF parsed.kind = "object"
        THEN Field(parsed.items[1].v, "researchNotes") ELSE UNDEFINED

\* C12: the plan refactorPlan returns has the researchNotes of currentPlan
\* whenever the response has none; when the response is the plan echoed
\* unchanged, title, summary and researchNotes are those of currentPlan.
\* Each refinement starts from the plan the one before returned, so this
\* holds after any number of them.
C12_RefinementKeepsNotes ==
    Refined =>
        /\ AnsweredNotes = UNDEFINED => plan.researchNotes = currentPlan.researchNotes
        /\ stripFences(responseText) = JSONstringify(currentPlan) =>
              /\ plan.title = currentPlan.title
              /\ plan.summary = currentPlan.summary
              /\ plan.researchNotes = currentPlan.researchNotes
        /\ plan.researchNotes \in ResearchTexts

\* a second refinement, answered without researchNotes and a new title
C12_Witness ==
    /\ Refined /\ Len(modelCalls) = 2
    /\ AnsweredNotes = UNDEFINED
    /\ plan.title # currentPlan.title
    /\ plan.researchNotes = currentPlan.researchNotes
    /\ currentPlan.researchNotes \in ResearchTexts

----------------------------------------------------------------------------
(* Properties of getRepoTree                                               *)

\* the entries of RemoteEntries that have no excluded directory segment, no
\* excluded extension and no size above 100 KiB
AdmissibleEntries ==
    { [path |-> <<"README.md">>, type |-> "blob", size |-> 1],
      [path |-> <<"src">>, type |-> "tree"],
      [path |-> <<"src", "app.ts">>, type |-> "blob", size |-> 100 * 1024],
      [path |-> <<"src", "build.ts">>, type |-> "blob", size |-> 10],
      [path |-> <<"lock">>, type |-> "blob", size |-> 0] }

\* C16: the tree getRepoTree returns holds no entry with an excluded
\* directory segment, an excluded extension or a size above 100 KiB, and
\* holds every other entry of the fetched tree, in the order fetched
C16_FilteredTreeExact ==
    pc = "tree-done" =>
        LET admissible(item) == item \in AdmissibleEntries
        IN  repoTree = SelectSeq(fetchedTree, admissible)

\* a fetched tree with a file of exactly 100 KiB kept and one above dropped
C16_Witness ==
    /\ pc = "tree-done"
    /\ Len(fetchedTree) = 2 /\ Len(repoTree) = 1
    /\ fetchedTree[1].path = <<"src", "big.ts">>
    /\ repoTree[1].path = <<"src", "app.ts">> /\ repoTree[1].size = MAX_FILE_SIZE

----------------------------------------------------------------------------
(* Properties of performDeepResearch                                       *)

\* the calls of the run made for the given stage (0 is the research call)
CallsOfStage(n) == {k \in 1..Len(modelCalls) : modelCalls[k].stage = n}

\* the hosted research call was issued and failed
ResearchFailed == 0 \in {modelCalls[k].stage : k \in 1..Len(modelCalls) \cap 1..Len(backend)}
                  /\ \A k \in CallsOfStage(0) : k <= Len(backend) /\ backend[k] = "error"

\* C13: in local mode performDeepResearch issues no model call and returns
\* the fixed note; a failed hosted research call returns another fixed
\* text; neither fails the run: the run goes on to stage 1, and a run that
\* failed after the tree was fetched failed in stage 1 or stage 2.
C13_ResearchNeverFails ==
    /\ provider = "local" =>
          /\ CallsOfStage(0) = {}
          /\ researchNotes \in
                {UNDEFINED,
                 "NOTE: Deep Internet Research is disabled in Local LLM mode. Using model's internal knowledge base only."}
    /\ (ResearchFailed /\ pc # "research-await") =>
          /\ researchNotes = "Internet research unavailable. Proceeding with internal knowledge."
          /\ researchNotes # LOCAL_RESEARCH_NOTE
    /\ pc = "research-done" => researchNotes \notin {UNDEFINED, ""} /\ error = <<>>
    /\ pc = "failed" => CallsOfStage(1) # {} /\ researchNotes \notin {UNDEFINED, ""}
    /\ pc = "tree-failed" => researchNotes = UNDEFINED

\* a local run that reached the plan view with the note as researchNotes
C13_Witness ==
    /\ provider = "local" /\ pc = "plan-ready" /\ appState = "VIEW_PLAN"
    /\ plan.researchNotes = LOCAL_RESEARCH_NOTE
    /\ Len(modelCalls) = 2 /\ modelCalls[1].stage = 1 /\ modelCalls[2].stage = 2

----------------------------------------------------------------------------
(* Properties of the .env rule                                             *)

\* a line KEY=value: an upper-case key, "=", a value of at least one character
IsKeyValueLine(l) ==
    \E e \in 2..(Len(l) - 1) :
        /\ l[e] = "="
        /\ \A j \in 1..(e - 1) : l[j] \in {"A", "P", "K", "_"}

KeyOf(l) == SubSeq(l, 1, IndexOf(l, <<"=">>) - 1)

\* C14: for a path that is .env-shaped, every KEY=value line of the text
\* comes out as KEY=[REDACTED], key preserved, whatever the value and
\* whether or not a named pattern matched on that line
C14_EnvLinesKeepKey ==
    (scanPc = "done" /\ IsEnvPath(filePath)) =>
        \A k \in 1..(CountNewlines(content) + 1) :
            IsKeyValueLine(LineOf(content, k)) =>
                LineOf(scanOut.content, k) = KeyOf(LineOf(content, k)) \o <<"=", "[REDACTED]">>

----------------------------------------------------------------------------
(* Properties of the size limit                                            *)

\* some secret pattern matches in the text
HasMatch(s) == \E k \in 1..Len(SECRET_PATTERNS) : matchAll(SECRET_PATTERNS[k], s) # <<>>

\* C15: a text of more than 500000 characters is not scanned: the result
\* is the fixed marker alone, with no warnings and no detections, and
\* holds nothing of the input; a text of 500000 characters or fewer is
\* scanned: its matches are detected and replaced, the rest is kept
C15_TooLargeIsSkipped ==
    scanPc = "done" =>
        IF Length(content) > 500000
        THEN /\ scanOut.content = <<"[FILE TOO LARGE - SKIPPED FOR SECURITY]">>
             /\ scanOut.warnings = <<>>
             /\ scanDetected = <<>> /\ consoleLog = <<>>
             /\ \A i \in 1..Len(content) : \A j \in 1..Len(scanOut.content) :
                   scanOut.content[j] # content[i]
        ELSE /\ scanOut.content # TOO_LARGE_MARKER
             /\ scanOut.content[1] = FILLER
             /\ HasMatch(content) <=> scanDetected # <<>>
             /\ HasMatch(content) <=> scanOut.warnings # <<>>
             /\ (~HasMatch(content) /\ ~IsEnvPath(filePath)) => scanOut.content = content

\* a text of 500001 characters with a key in it, skipped
C15_Witness ==
    /\ scanPc = "done"
    /\ Length(content) = MAX_SCAN_LENGTH + 1
    /\ HasMatch(content)
    /\ scanOut.content = TOO_LARGE_MARKER /\ scanOut.warnings = <<>>

----------------------------------------------------------------------------
(* Properties of handleAnalyze                                             *)

\* the run has thrown and handleAnalyze has yet to catch
RunThrew == pc \in {"tree-failed", "failed"}

\* handleAnalyze has ended in its catch: the goals form is shown again
AnalyzeEndedFailed == pc = "error-shown"

\* C17: when a run started by handleAnalyze fails, in the tree fetch, in
\* the stage-1 call, in the stage-2 call or in the parse of the plan, the
\* App stays out of the plan view, the stored plan stays as it was (none),
\* the error is shown, and the analyzing flag is false again
C17_FailedRunKeepsState ==
    /\ RunThrew => isAnalyzing /\ appState = "INPUT_GOALS" /\ plan = NULL /\ error # <<>>
    /\ AnalyzeEndedFailed =>
          /\ appState = "INPUT_GOALS" /\ plan = NULL
          /\ alerts[Len(alerts)] = <<"Failed to generate plan: ">> \o error
          /\ error # <<>> /\ outcome = "threw"
          /\ ~isAnalyzing /\ loadingStage = <<>>
    /\ \A k \in 1..Len(backend) :
          (backend[k] = "error" /\ modelCalls[k].stage \in {1, 2}) =>
              RunThrew \/ AnalyzeEndedFailed
    /\ (pc \notin {"stage2-await", "error-shown"} /\ Len(backend) = Len(modelCalls)
           /\ CallsOfStage(2) # {} /\ backend[Len(backend)] = "ok"
           /\ JSONparse(stripFences(responseText)).kind \notin {"object", "array"}) =>
          RunThrew
    /\ appState = "VIEW_PLAN" => pc = "plan-ready" /\ outcome = "returned" /\ plan # NULL

\* a run whose plan did not parse: the alert shows the parse error
C17_Witness ==
    /\ AnalyzeEndedFailed
    /\ alerts[Len(alerts)] = alertText(INVALID_PLAN_ERROR)
    /\ CallsOfStage(1) # {} /\ CallsOfStage(2) # {}
    /\ ~isAnalyzing /\ plan = NULL /\ appState = "INPUT_GOALS"

----------------------------------------------------------------------------
(* Properties of the run: single attempts and their order                  *)

CallOfStage(n) == IF CallsOfStage(n) = {} THEN 0 ELSE CHOOSE k \in CallsOfStage(n) : TRUE

\* C19: the stage-2 call is issued only after the stage-1 call has returned
\* and every fetch of a selected file has settled and its text has been
\* scanned; the fetches are those of the stage-1 result, no more and no
\* less; stage 1 itself starts after the tree and the research returned.
C19_Stage2AfterStage1AndFetches ==
    /\ CallsOfStage(2) # {} =>
          /\ CallOfStage(1) # 0 /\ CallOfStage(1) < CallOfStage(2)
          /\ backend[CallOfStage(1)] = "ok"
          /\ fetchRequests = relevantFilePaths
          /\ Len(settleOrder) = Len(fetchRequests)
          /\ \A i \in 1..Len(fetchRequests) :
                /\ rawContent[i].settled
                /\ fileContents[i] = sanitizedFile(fetchRequests[i], rawContent[i].text)
          /\ modelCalls[CallOfStage(2)].analyzedFiles = fileContexts(fileContents)
    /\ fetchRequests # <<>> =>
          /\ CallOfStage(1) # 0 /\ backend[CallOfStage(1)] = "ok"
          /\ \A i \in 1..Len(fetchRequests) : InTree(repoTree, fetchRequests[i])
    /\ CallsOfStage(1) # {} =>
          /\ Len(githubRequests) = 2 /\ repoTree = filteredTree(fetchedTree)
          /\ researchNotes # UNDEFINED

\* stage 2 waiting, after the fetches of two files settled in reverse order
C19_Witness ==
    /\ pc = "stage2-await"
    /\ Len(fetchRequests) = 2 /\ settleOrder = <<2, 1>>
    /\ fetchRequests[1] # fetchRequests[2]
    /\ CallOfStage(2) = Len(modelCalls)

----------------------------------------------------------------------------
(* Properties of callLocalLLM                                              *)

\* a request to the local backend has failed in this run
LocalCallFailed ==
    /\ provider = "local" /\ baseUrl # ""
    /\ \E k \in 1..Len(backend) : backend[k] = "error"

\* C20: when a request to the local backend fails (no connection, an HTTP
\* error status, an unreadable body), the operation fails and the message
\* of its error holds the configured base URL
C20_LocalFailureNamesEndpoint ==
    LocalCallFailed =>
        /\ RunThrew \/ AnalyzeEndedFailed
        /\ outcome = "threw"
        /\ \E i \in 1..Len(error) : error[i] = baseUrl
        /\ error = <<"Failed to connect to Local LLM at ", baseUrl, ". Is it running?">>
        /\ AnalyzeEndedFailed => \E i \in 1..Len(alerts[Len(alerts)]) :
                                     alerts[Len(alerts)][i] = baseUrl

\* the stage-2 call to a local backend at another address failed
C20_Witness ==
    /\ LocalCallFailed /\ AnalyzeEndedFailed
    /\ baseUrl = OTHER_BASE_URL
    /\ CallsOfStage(2) # {} /\ backend = <<"ok", "error">>
    /\ alerts[Len(alerts)] =
          <<"Failed to generate plan: ", "Failed to connect to Local LLM at ",
            "http://127.0.0.1:1234/v1", ". Is it running?">>

----------------------------------------------------------------------------
(* Properties of the error of a plan that does not parse                   *)

\* the characters of a response text: the values of its tokens, in order
RECURSIVE RawText(_)
RawText(txt) == IF txt = <<>> THEN <<>> ELSE Head(txt).v \o RawText(Tail(txt))

\* C21: when the response of plan synthesis cannot be parsed, the message
\* of the error that leaves generatePlanEnhanced holds the raw response text
C21_ErrorCarriesRawResponse ==
    (pc = "failed" /\ Len(backend) = 2 /\ backend[2] = "ok") =>
        Contains(error, RawText(responseText))

(* ------------------------------------------------------------------------ *)
(* Properties of buildTree on entries of the same path                      *)

\* the kind an entry declares for the node its path ends at
DeclaredKind(entry) == IF entry.type = "blob" THEN "file" ELSE "dir"

\* entry j is the last entry of its path, and an earlier entry i of the same
\* path declares the other kind
Conflict(i, j) ==
    /\ i < j
    /\ inputFiles[i].path = inputFiles[j].path
    /\ inputFiles[i].type # inputFiles[j].type
    /\ \A k \in (j + 1)..Len(inputFiles) : inputFiles[k].path # inputFiles[j].path

\* C22: entries of the same path are merged into one node (the node set is
\* that of the list without its repeated paths), and when two entries of one
\* path declare different kinds the node is rendered with the kind of the
\* later entry.
C22_LaterEntryDecidesKind ==
    treePc = "done" =>
        /\ Cardinality(DOMAIN buildTree(inputFiles))
              = Cardinality(UNION {{SubSeq(inputFiles[i].path, 1, k) :
                                        k \in 1..Len(inputFiles[i].path)} :
                                    i \in 1..Len(inputFiles)})
        /\ \A i, j \in 1..Len(inputFiles) :
              (Conflict(i, j) /\ Len(inputFiles[j].path) = 1) =>
                  \E n \in 1..Len(DigestLines) :
                      /\ DigestLines[n].prefix = <<>>
                      /\ DigestLines[n].name = inputFiles[j].path[1]
                      /\ DigestLines[n].kind = DeclaredKind(inputFiles[j])

(* ------------------------------------------------------------------------ *)
(* Properties of the order of the digest                                    *)

\* the lines of nodes (the truncation line is not one)
NodeLines == {n \in 1..Len(DigestLines) : DigestLines[n].kind \in {"dir", "file"}}

\* the level of a line: one prefix segment per ancestor that was drawn
Depth(n) == Len(DigestLines[n].prefix)

\* the nearest line above line n that is not deeper than level d (0: none)
RECURSIVE Above(_, _)
Above(n, d) ==
    IF n = 1 THEN 0
    ELSE IF Depth(n - 1) <= d THEN n - 1 ELSE Above(n - 1, d)

\* the path of the node of line n, read off the lines above it
RECURSIVE PathOfLine(_)
PathOfLine(n) ==
    IF Depth(n) = 0 THEN <<DigestLines[n].name>>
    ELSE Append(PathOfLine(Above(n, Depth(n) - 1)), DigestLines[n].name)

\* C23: at every level of the digest all directories come before all files
\* and the names of each group are in the order of localeCompare; the line of
\* a node is followed by the lines of its descendants (the lines are the
\* nodes of the tree in depth-first order, each under its parent).
C23_DirectoriesFirstDepthFirst ==
    treePc = "done" =>
        LET nodes == UNION {{SubSeq(inputFiles[i].path, 1, k) :
                                k \in 1..Len(inputFiles[i].path)} :
                            i \in 1..Len(inputFiles)}
            paths == {PathOfLine(n) : n \in NodeLines}
        IN  /\ paths \subseteq nodes
            /\ Cardinality(paths) = Cardinality(NodeLines)
            /\ Len(DigestLines) <= MAX_TREE_LINES => paths = nodes
            /\ \A n \in NodeLines :
                  /\ n = 1 => Depth(n) = 0
                  /\ n > 1 => /\ Depth(n) <= Depth(n - 1) + 1
                              /\ DigestLines[n - 1] # TRUNCATION_LINE
                  /\ Depth(n) > 0 => Depth(Above(n, Depth(n) - 1)) = Depth(n) - 1
                  /\ LET sib == Above(n, Depth(n))
                     IN  (sib # 0 /\ Depth(sib) = Depth(n)) =>
                            /\ DigestLines[sib].kind = "file" => DigestLines[n].kind = "file"
                            /\ DigestLines[sib].kind = DigestLines[n].kind =>
                                  NameRank(DigestLines[sib].name)
                                      < NameRank(DigestLines[n].name)

\* a list that names a file first and directories after it, one of them with
\* a child: the digest lists docs, src, src/app.ts, README.md
C23_Witness ==
    /\ treePc = "done"
    /\ inputFiles = <<Blob(<<"README.md">>), Blob(<<"src", "app.ts">>), Dir(<<"docs">>)>>
    /\ Len(DigestLines) = 4
    /\ DigestLines[1].name = "docs" /\ DigestLines[2].name = "src"
    /\ DigestLines[3].name = "app.ts" /\ Depth(3) = 1
    /\ DigestLines[4].name = "README.md"

(* ------------------------------------------------------------------------ *)
(* Properties of the importance filter in stage 1                           *)

\* the entries of repoTree that filterImportantFiles keeps
ImportantEntries == {filterImportantFiles(repoTree)[i] : i \in 1..Len(filterImportantFiles(repoTree))}

\* every node line of the digest of the stage-1 prompt is a segment of the
\* path of an entry the importance filter kept
DigestOfImportantOnly ==
    \A k \in 1..Len(modelCalls) :
        modelCalls[k].stage = 1 =>
            \A n \in 1..Len(modelCalls[k].structure) :
                modelCalls[k].structure[n].kind \in {"dir", "file"} =>
                    \E f \in ImportantEntries : \E i \in 1..Len(f.path) :
                        f.path[i] = modelCalls[k].structure[n].name

IdentifyReturned == pc = "identified" /\ outcome = "returned"

\* C24 (as claimed): the digest of the stage-1 prompt is built from the
\* entries filterImportantFiles keeps, and no path identifyRelevantFiles
\* returns is an entry that filter dropped.
C24_ReturnedPathsAreImportant ==
    /\ DigestOfImportantOnly
    /\ IdentifyReturned =>
          \A i \in 1..Len(relevantFilePaths) :
              \E f \in ImportantEntries : f.path = relevantFilePaths[i]

\* C24 (amended): the digest of the stage-1 prompt is built from the entries
\* filterImportantFiles keeps; the returned paths are validated against the
\* whole tree handed to identifyRelevantFiles, so each is the path of an
\* entry of that tree, kept by the importance filter or not.
C24_ValidatedAgainstWholeTree ==
    /\ DigestOfImportantOnly
    /\ IdentifyReturned =>
          \A i \in 1..Len(relevantFilePaths) : InTree(repoTree, relevantFilePaths[i])

\* a response that names LICENSE, which the digest did not show, and
\* LICENSE is returned
C24_Witness ==
    /\ IdentifyReturned
    /\ InTree(repoTree, <<"LICENSE">>)
    /\ InTree(repoTree, <<"README.md">>)
    /\ \A n \in 1..Len(modelCalls[1].structure) : modelCalls[1].structure[n].name # "LICENSE"
    /\ \E i \in 1..Len(relevantFilePaths) : relevantFilePaths[i] = <<"LICENSE">>

(* ------------------------------------------------------------------------ *)
(* Properties of the errors of getRepoTree                                  *)

\* the Errors getRepoTree throws when a request is answered 404 Not Found
NotFoundErrors ==
    {branchError(r) : r \in {x \in BranchResults : x.status = 404}}
        \cup {treeError(r) : r \in {x \in TreeResults : x.status = 404}}

\* the request getRepoTree failed on was answered 403 (rate limit exceeded)
FailedThrottled ==
    /\ pc = "tree-failed"
    /\ githubResponses # <<>>
    /\ githubResponses[Len(githubResponses)].status = 403

\* C25: whichever of its two requests is throttled, the Error getRepoTree
\* throws is never one it throws for a repository or branch that was not
\* found.
C25_ThrottledIsNotNotFound ==
    FailedThrottled => error \notin NotFoundErrors

(* ------------------------------------------------------------------------ *)
(* Properties of the repository search                                      *)

\* the run of the search effect for the current debouncedQuery, 0 if none
CurrentRun ==
    IF runs # <<>> /\ runs[Len(runs)].active THEN Len(runs) ELSE 0

\* a step in which a run that was superseded (its `active` is false) moves on
SupersededStep(k) == ~runs[k].active /\ runs'[k] # runs[k]

\* what is shown once the current run has ended is what that run received
ShownIsOfCurrentRun ==
    /\ \A k \in 1..Len(runs) : runs[k].active => (k = Len(runs) /\ runs[k].query = debouncedQuery)
    /\ Len(debouncedQuery) < MIN_QUERY_LENGTH => (results = <<>> /\ searchError = NULL)
    /\ searchError # NULL =>
          (CurrentRun # 0 /\ runs[CurrentRun].ended = "error" /\ results = <<>>)
    /\ (CurrentRun # 0 /\ runs[CurrentRun].at = "done") =>
          /\ results = runs[CurrentRun].data
          /\ runs[CurrentRun].ended = "ok" => searchError = NULL

\* C26: under any interleaving of query changes and responses, the response
\* of a superseded request changes neither the results nor the error shown,
\* and once the request of the latest debounced query has ended, the results
\* and the error shown are those of that request.
C26_LastResultWins ==
    /\ [][\A k \in 1..Len(runs) :
            SupersededStep(k) => (results' = results /\ searchError' = searchError)]_vars
    /\ []ShownIsOfCurrentRun

\* the request of an earlier query was answered with a repository after the
\* request of the latest query had ended, and the latest results are shown
C26_Witness ==
    /\ CurrentRun # 0 /\ runs[CurrentRun].at = "done"
    /\ results = runs[CurrentRun].data
    /\ \E k \in 1..(Len(runs) - 1) :
          /\ runs[k].at = "done" /\ runs[k].data # <<>>
          /\ runs[k].order > runs[CurrentRun].order

\* a request for the current debounced query is in flight
CurrentInFlight == CurrentRun # 0 /\ runs[CurrentRun].at # "done"

\* C27: whenever no request for the current debounced query is in flight the
\* loading flag is false; and a loading flag that is set (as it is when a
\* query of 3 or more characters is replaced by a shorter one while its
\* request is in flight) is eventually false again.
C27_LoadingEndsWithRequest ==
    /\ [](~CurrentInFlight => ~loading)
    /\ (loading /\ Len(debouncedQuery) < MIN_QUERY_LENGTH) ~> ~loading

(* ------------------------------------------------------------------------ *)
(* Properties of the step chat                                              *)

RoleAt(i) == IF i % 2 = 1 THEN "user" ELSE "model"

\* C28: every question sent ends with loadingChat false again, whether
\* askStepQuestion returns or fails; never are two questions in flight; the
\* history alternates user and model turns, beginning with the user.
C28_QuestionsEnd ==
    /\ [](asksInFlight <= 1)
    /\ [](\A i \in 1..Len(chatHistory) : chatHistory[i].role = RoleAt(i))
    /\ loadingChat ~> ~loadingChat

(* ------------------------------------------------------------------------ *)
(* Properties of the screens of the App                                     *)

\* C29: in every reachable state of the App, VIEW_PLAN implies that plan and
\* selectedRepo are both set, and INPUT_GOALS implies that selectedRepo is
\* set.
C29_ScreensHaveTheirData ==
    /\ appState = "VIEW_PLAN" => (plan # NULL /\ selectedRepo # NULL)
    /\ appState = "INPUT_GOALS" => selectedRepo # NULL

\* a second repository is being worked on after a reset: a failed analysis
\* was shown, the plan of the first repository is gone, and a refinement
\* started before the reset has delivered its plan since
C29_Witness ==
    /\ appState = "INPUT_GOALS"
    /\ selectedRepo = OTHER_REPO
    /\ alerts # <<>>
    /\ plan \in RefinedPlans

(* ------------------------------------------------------------------------ *)
(* Properties of the entries identifyRelevantFiles selects                  *)

\* C30: every path identifyRelevantFiles returns is the path of a file
\* (blob) entry of the tree, never that of a directory entry, and no path is
\* returned twice.
C30_ReturnsDistinctFiles ==
    IdentifyReturned =>
        /\ \A i \in 1..Len(relevantFilePaths) :
              \E j \in 1..Len(repoTree) :
                  /\ repoTree[j].path = relevantFilePaths[i]
                  /\ repoTree[j].type = "blob"
        /\ \A i, j \in 1..Len(relevantFilePaths) :
              i # j => relevantFilePaths[i] # relevantFilePaths[j]

====
